---- MODULE Spec2Model ----
(***************************************************************************)
(* A model of vbase's write path, recovery, open, and tree engine.          *)
(*                                                                         *)
(*   Spec         the write pipeline of one open database: concurrent      *)
(*                callers of Core::write, each step of the SPMC ring       *)
(*                (spmc_queue.rs) and of the committer (pipeline.rs) its   *)
(*                own action.                                              *)
(*   SpecLive     Spec with the fairness of the threads' scheduling.       *)
(*   SpecRecover  the life of a database directory: Core::open with        *)
(*                Recover::recover, writes, engine flushes, crashes.       *)
(*   SpecDisk     Core::open on any directory of journal files.            *)
(*   SpecRoot     Core::open step by step on one path, by several          *)
(*                instances: LOCK, MANIFEST, TEMP, engine directories.     *)
(*   SpecTree     a tree engine: EngineHandle::open, the bucket            *)
(*                operations, the rotation of its manifest file.           *)
(*   SpecFile     one journal file (journal.rs), byte by byte: a           *)
(*                FileWriter appends and finishes records, the file may    *)
(*                be cut short, a File reads it back.                      *)
(*   SpecFrag     a File reading any sequence of well-formed fragments.    *)
(*   SpecVarint   a u16 through Varint::encode_to and Varint::decode_from. *)
(*   SpecSkip     threads adding to a SkipList, load by load.              *)
(*   SpecSeek     the same with a thread iterating and seeking.            *)
(*   SpecVid      one thread adding Vid keys while a thread seeks.         *)
(*   SpecArena    threads allocating from an Arena.                        *)
(*                                                                         *)
(* A journal record is [lsn, targets]: the varint LSN and the set of       *)
(* engine ids the batch carries a payload for.                             *)
(***************************************************************************)
EXTENDS Integers, Sequences, FiniteSets, Bags, TLC

\* ---------------------------------------------------------------- bounds
NThreads == 3
QueueBits == 1
UsizeBits == 4
MaxWrites == 3
MaxInitLsn == 1
MaxOpens == 4
MaxDiskLsn == 3
MaxDiskFiles == 2
MaxDiskLen == 2
MaxDurLsn == 2
NEngines == 2
NInstances == 2
MaxRootOpens == 3
NBucketThreads == 2
MaxTreeOps == 4
MaxTreeOpens == 2
ManifestMinFileSize == 5
\* The journal file format, scaled: 32 KiB blocks with 7-byte headers and a
\* buffer of 32 blocks become blocks of BLOCK_SIZE bytes with headers of
\* HEADER_SIZE bytes and a buffer of BufferBlocks blocks.
BLOCK_SIZE == 4
HEADER_SIZE == 2
BufferBlocks == 2
MaxAppend == 3
MaxParts == 3
MaxBytes == 6
MaxRecords == 3
MaxFrags == 4
\* The skip list, scaled: MAX_HEIGHT is 16 in the code, a usize key is 8 bytes.
NAdders == 2
MaxAdds == 3
MaxSeekAdds == 2
NKeys == 2
MAX_HEIGHT == 2
KeyBytes == 2
MaxReads == 1
ArenaBits == 4
ALIGN == 2
BufSize == 4
NAllocators == 2
MaxAllocs == 3

Threads == 1..NThreads
Engines == 1..NEngines
Instances == 1..NInstances
\* The names engines are registered under (Engine::NAME).
EngineNames == {"tree", "graph"}
\* The ring size N (a power of two).
QUEUE_SIZE == 2 ^ QueueBits
\* The DONE bit: the top bit of the slot's count.
DONE == 2 ^ (UsizeBits - 1)
CountMod == 2 ^ UsizeBits
NoSlot == -1

VARIABLES
    th,         \* per thread: position in Core::write and its locals
    mutex,      \* Core.journal: 0 when free, else the thread holding it
    subLsn,     \* WriteSubmitter.lsn
    pubLsn,     \* WriteCommitter.lsn
    initLsn,    \* the LSN given to create_pipeline
    head,       \* Queue.state, high half
    tail,       \* Queue.state, low half
    slots,      \* Queue.slots: count and the Write stored in the slot
    token,      \* per thread: the park token set by unpark
    files,      \* journal files on disk: id -> sequence of records
    cur,        \* id of the journal file Core.journal writes to
    wbuf,       \* FileWriter.buffer: records built but not yet written
    mem,        \* per engine: LSNs written to it since it was opened
    dur,        \* per engine: LSNs it holds durably
    durLsn,     \* per engine: its durable last LSN
    core,       \* the database: open or not, and how the last Core::open ended
    hist,       \* history: what the callers have seen
    root,       \* the root directory: LOCK, MANIFEST, TEMP, engine-<id> dirs
    lock,       \* the instance holding the lock on LOCK, 0 when none
    inst,       \* per instance: position in Core::open and its locals
    tdir,       \* a tree engine's directory: CURRENT, TEMP, manifest-<id> files
    tree,       \* the tree EngineHandle: buckets, next_id, ManifestWriter
    bth,        \* per thread: position in a bucket operation and its locals
    jfile,      \* a journal file on disk: its bytes
    jw,         \* the FileWriter on it: buffer, offset, fragment, is_first_fragment
    jr,         \* the File reading it: buffer, offset, length, record
    jlog,       \* history: records finished, results read, the cut if any
    codec,      \* a varint on its way: the value, its bytes, what decoding gave
    sl,         \* the SkipList: height, head, the nodes allocated so far
    sth,        \* per adding thread: position in SkipList::add and its locals
    srd,        \* the reading thread: its SkipListIter and what it returned
    ar,         \* Arena: offset, and the regions it has returned
    ath         \* per allocating thread: position in Arena::alloc and its locals

baseVars == <<th, mutex, subLsn, pubLsn, initLsn, head, tail, slots, token,
              files, cur, wbuf, mem, dur, durLsn, core, hist>>
rootVars == <<root, lock, inst>>
treeVars == <<tdir, tree, bth>>
fileVars == <<jfile, jw, jr, jlog>>
codecVars == <<codec>>
skipVars == <<sl, sth, srd>>
arenaVars == <<ar, ath>>
extVars == <<rootVars, treeVars, fileVars, codecVars, skipVars, arenaVars>>
vars == <<baseVars, extVars>>
\* What the steps of Core::open leave alone, and what the tree engine's do.
offRootVars == <<treeVars, fileVars, codecVars, skipVars, arenaVars>>
offTreeVars == <<baseVars, rootVars, fileVars, codecVars, skipVars, arenaVars>>
offFileVars == <<baseVars, rootVars, treeVars, codecVars, skipVars, arenaVars>>
offCodecVars == <<baseVars, rootVars, treeVars, fileVars, skipVars, arenaVars>>
offSkipVars == <<baseVars, rootVars, treeVars, fileVars, codecVars, arenaVars>>
offArenaVars == <<baseVars, rootVars, treeVars, fileVars, codecVars, skipVars>>

pipeVars == <<th, mutex, head, tail, slots, token>>
diskVars == <<files, cur, wbuf>>
openVars == <<initLsn, core>>
engineVars == <<mem, dur, durLsn>>

\* ---------------------------------------------------------------- helpers
Max(S) == IF S = {} THEN 0 ELSE CHOOSE x \in S : \A y \in S : y <= x
Min(S) == IF S = {} THEN 0 ELSE CHOOSE x \in S : \A y \in S : x <= y
Range(s) == {s[i] : i \in 1..Len(s)}

\* Desc::default(): the descriptor of a root directory without MANIFEST.
DefaultDesc == [last_id |-> 0, engines |-> <<>>]
\* A file holding an encoded descriptor: complete when all bytes with their
\* checksum are there.
NoFile == [present |-> FALSE, complete |-> FALSE, desc |-> DefaultDesc]
FileOf(desc, complete) == [present |-> TRUE, complete |-> complete, desc |-> desc]
\* A path at which nothing exists.
NoRoot ==
    [exists |-> FALSE, lockfile |-> FALSE, manifest |-> NoFile, temp |-> NoFile,
     engines |-> {}]
\* An instance that is not in Core::open and holds no Core.
IdleInst ==
    [pc |-> "idle", result |-> "none", opens |-> 0,
     registered |-> {}, engines |-> {}, error_if_exists |-> FALSE,
     error_if_not_exist |-> FALSE, desc |-> DefaultDesc, handles |-> {}]
\* The threads that call the bucket operations of an engine.
BucketThreads == 1..NBucketThreads
BucketNames == {"a", "b"}
\* tree::manifest::Desc::default()
DefaultTreeDesc == [last_id |-> 0, buckets |-> {}]
\* CURRENT or TEMP of an engine directory: absent, or cut short by a crash;
\* otherwise the id of the manifest file it names.
NoName == 0
PartialName == -1
\* An engine directory as Core::open creates it.
NoTreeDir == [current |-> NoName, temp |-> NoName, manifests |-> <<>>]
\* No EngineHandle.
NoTree ==
    [pc |-> "closed", result |-> "none", opens |-> 0, ops |-> 0,
     desc |-> DefaultTreeDesc, last_id |-> 0, next_id |-> 0, buckets |-> {},
     mdesc |-> DefaultTreeDesc, mfile |-> 0, msize |-> 0, init_size |-> 0,
     mutex |-> 0]
IdleBucketThread ==
    [pc |-> "idle", op |-> "none", name |-> "", id |-> 0, file |-> 0,
     result |-> "none", present |-> FALSE]
TreeIdle ==
    /\ tdir = NoTreeDir
    /\ tree = NoTree
    /\ bth = [t \in BucketThreads |-> IdleBucketThread]
RootIdle ==
    /\ root = NoRoot
    /\ lock = 0
    /\ inst = [i \in Instances |-> IdleInst]
\* journal.rs: the buffer of a journal file in bytes, and the modulus of the
\* u16 size field of a header (2^16 is twice the 32 KiB block).
BUFFER_SIZE == BufferBlocks * BLOCK_SIZE
SizeMod == 2 * BLOCK_SIZE
\* FragmentKind
Full == 1
First == 2
Middle == 3
Last == 4
\* The bytes of a journal file. A header is HEADER_SIZE bytes: its first
\* byte stands for the checksum, size and kind fields, the rest fill it up.
ZeroByte == [t |-> "zero", v |-> 0, size |-> 0, kind |-> 0, crc |-> <<>>]
DataByte(v) == [t |-> "data", v |-> v, size |-> 0, kind |-> 0, crc |-> <<>>]
HeadByte(crc, size, kind) ==
    [t |-> "head", v |-> 0, size |-> size, kind |-> kind, crc |-> crc]
HeadRest == [t |-> "rest", v |-> 0, size |-> 0, kind |-> 0, crc |-> <<>>]
\* FileWriter::new; frags remembers where each built fragment lies in the file.
NewFileWriter ==
    [buffer |-> [i \in 0..(BUFFER_SIZE - 1) |-> ZeroByte], offset |-> 0,
     start |-> 0, end |-> 0, is_first_fragment |-> TRUE, file |-> <<>>,
     panicked |-> FALSE, frags |-> <<>>]
\* File::new
NewFile == [buffer |-> <<>>, offset |-> 0, length |-> 0, pos |-> 0, record |-> <<>>]
NoLog ==
    [phase |-> "write", records |-> <<>>, current |-> <<>>, appends |-> 0,
     bytes |-> 0, reads |-> <<>>, cut |-> -1, whole |-> <<>>, kinds |-> <<>>]
FileIdle ==
    /\ jfile = <<>>
    /\ jw = NewFileWriter
    /\ jr = NewFile
    /\ jlog = NoLog
\* No varint encoded yet.
NoVarint == [pc |-> "value", v |-> 0, bytes |-> <<>>, value |-> 0, used |-> 0, panicked |-> FALSE]
CodecIdle == codec = NoVarint
\* The threads that add to a skip list, and the levels of a node.
Adders == 1..NAdders
Levels == 0..(MAX_HEIGHT - 1)
\* Pointers: a node is its index in sl.nodes, the head is 0 where a node
\* to start from is meant, null is 0 where a next pointer is meant; a next
\* pointer never stored to is Unset.
Null == 0
HeadNode == 0
Unset == -1
NoKey == [id |-> 0, lsn |-> 0]
\* SkipList::new; kind tells what K is, cap how many adds a run makes and
\* threads how many threads make them, added and epoch are history.
NewSkipList(kind, cap, threads) ==
    [kind |-> kind, cap |-> cap, threads |-> threads, height |-> 1, head |-> [l \in Levels |-> Null],
     nodes |-> <<>>, adds |-> 0, added |-> EmptyBag, epoch |-> 0]
NoLink == [prev |-> HeadNode, next |-> Null]
IdleAdder ==
    [pc |-> "idle", k |-> NoKey, height |-> 0, current |-> 0, node |-> 0,
     level |-> 0, prev |-> HeadNode, link |-> NoLink,
     splice |-> [l \in Levels |-> NoLink]]
IdleReader ==
    [pc |-> "idle", op |-> "none", k |-> NoKey, next |-> Null, level |-> 0,
     prev |-> HeadNode, out |-> <<>>, epoch |-> 0, before |-> EmptyBag, ops |-> 0]
SkipIdle ==
    /\ sl = NewSkipList("usize", 0, 0)
    /\ sth = [t \in Adders |-> IdleAdder]
    /\ srd = IdleReader
\* Arena: u64 and usize are ArenaBits wide, as on a 64-bit target.
Allocators == 1..NAllocators
WordMod == 2 ^ ArenaBits
IsizeMax == 2 ^ (ArenaBits - 1) - 1
\* Arena::new(BufSize); checks tells whether the build has overflow checks,
\* regions, allocs and used are history.
NewArena(checks) ==
    [offset |-> 0, checks |-> checks, regions |-> <<>>, allocs |-> 0,
     used |-> 0, aborted |-> FALSE]
IdleAlloc == [pc |-> "idle", size |-> 0, size64 |-> 0, offset |-> 0]
ArenaIdle ==
    /\ ar = NewArena(TRUE)
    /\ ath = [t \in Allocators |-> IdleAlloc]
ExtIdle ==
    /\ RootIdle
    /\ TreeIdle
    /\ FileIdle
    /\ CodecIdle
    /\ SkipIdle
    /\ ArenaIdle

\* Queue::slot: index & (N - 1), N a power of two.
slot(index) == index % QUEUE_SIZE

\* Slot::is_done: done and in use.
is_done_ignoring_flag(count) == count % DONE > 0
is_done(count) == count > DONE

\* Slot::is_free: done and not in use.
is_free_done_bit(count) == count >= DONE
is_free(count) == count = DONE

\* Slot::done: count.fetch_add(DONE).
slot_done(count) == (count + DONE) % CountMod

\* Drop for Done: count.fetch_sub(1).
done_drop_both(count) == (count - 2) % CountMod
done_drop(count) == (count - 1) % CountMod

\* Write::new(lsn) as stored in a slot by Slot::store(item, 2).
NewWrite(lsn, t) == [count |-> 2, lsn |-> lsn, thread |-> t, is_published |-> FALSE]

\* Slot::default: Write::default() with count DONE.
DefaultSlot == [count |-> DONE, lsn |-> 0, thread |-> 0, is_published |-> FALSE]

\* EngineHandle::last_lsn: the last LSN written to the engine.
last_lsn(e) == Max(mem[e] \cup {durLsn[e]})

IdleThread ==
    [pc |-> "idle", lsn |-> 0, batch |-> {}, handle |-> NoSlot, item |-> NoSlot,
     sh |-> 0, st |-> 0, old |-> 0]

EmptyHist ==
    [returned |-> {}, failed |-> {}, committed |-> {}, dequeued |-> <<>>,
     enqueued |-> <<>>, writes |-> 0]

\* How a Core::open ended: Ok, or Corrupted with the name it carries (a
\* journal id, or RootPath) and the LSNs of its message.
RootPath == -1
OpenOk == [kind |-> "ok", name |-> 0, lsn |-> 0, prev |-> 0]
NotOpened == [kind |-> "none", name |-> 0, lsn |-> 0, prev |-> 0]
Corrupted(name, lsn, prev) ==
    [kind |-> "corrupted", name |-> name, lsn |-> lsn, prev |-> prev]

\* ------------------------------------------------- Core::write, submit stage
\* self.journal.lock(): the caller brings a batch for some set of engines.
CanLockUnguarded == TRUE
CanLock == mutex = 0

\* The batches the callers of the pipeline bring.
PipelineBatches == {Engines}

Lock(t) ==
    /\ th[t].pc = "idle"
    /\ CanLock
    /\ subLsn < initLsn + MaxWrites
    /\ \E b \in PipelineBatches :
          th' = [th EXCEPT ![t].pc = "next_lsn", ![t].batch = b]
    /\ mutex' = t
    /\ UNCHANGED <<subLsn, pubLsn, openVars, head, tail, slots, token,
                   diskVars, engineVars, hist>>
    /\ UNCHANGED extVars

\* WriteSubmitter::next_lsn: self.lsn += 1; self.lsn
next_lsn_stale(l) == l
next_lsn(l) == l + 1

NextLsn(t) ==
    /\ th[t].pc = "next_lsn"
    /\ subLsn' = next_lsn(subLsn)
    /\ th' = [th EXCEPT ![t].pc = "journal", ![t].lsn = subLsn']
    /\ UNCHANGED <<mutex, pubLsn, openVars, head, tail, slots, token,
                   diskVars, engineVars, hist>>
    /\ UNCHANGED extVars

\* JournalWriter::write then (options.sync) JournalWriter::sync. The record is
\* built in the writer's buffer and RecordWriter::finish flushes the buffer
\* to the file; a failed flush leaves the buffer as it is, a failed sync
\* leaves the record in the file. Either error returns from Core::write
\* (the `?`), dropping the guard.
JournalWrite(t) ==
    /\ th[t].pc = "journal"
    /\ LET rec == [lsn |-> th[t].lsn, targets |-> th[t].batch]
           buf == Append(wbuf, rec)
       IN \/ /\ files' = [files EXCEPT ![cur] = files[cur] \o buf]
             /\ wbuf' = <<>>
             /\ th' = [th EXCEPT ![t].pc = "enq_load"]
             /\ UNCHANGED <<mutex, hist>>
          \/ /\ wbuf' = buf
             /\ th' = [th EXCEPT ![t] = IdleThread]
             /\ mutex' = 0
             /\ hist' = [hist EXCEPT !.failed = @ \cup {th[t].lsn}]
             /\ UNCHANGED files
          \/ /\ files' = [files EXCEPT ![cur] = files[cur] \o buf]
             /\ wbuf' = <<>>
             /\ th' = [th EXCEPT ![t] = IdleThread]
             /\ mutex' = 0
             /\ hist' = [hist EXCEPT !.failed = @ \cup {th[t].lsn}]
    /\ UNCHANGED <<subLsn, pubLsn, openVars, head, tail, slots, token, cur,
                   engineVars>>
    /\ UNCHANGED extVars

\* ------------------------------------------------- Producer::enqueue
\* let state = self.0.state.load(Acquire)
EnqLoad(t) ==
    /\ th[t].pc = "enq_load"
    /\ th' = [th EXCEPT ![t].pc = "enq_check", ![t].sh = head, ![t].st = tail]
    /\ UNCHANGED <<mutex, subLsn, pubLsn, openVars, head, tail, slots, token,
                   diskVars, engineVars, hist>>
    /\ UNCHANGED extVars

\* The two checks of the loop, then slot.store(item, 2).
EnqCheck(t) ==
    /\ th[t].pc = "enq_check"
    /\ LET i == slot(th[t].sh)
       IN \/ /\ th[t].st + QUEUE_SIZE = th[t].sh
             /\ th' = [th EXCEPT ![t].pc = "enq_load"]
             /\ UNCHANGED slots
          \/ /\ th[t].st + QUEUE_SIZE # th[t].sh
             /\ ~is_free(slots[i].count)
             /\ th' = [th EXCEPT ![t].pc = "enq_load"]
             /\ UNCHANGED slots
          \/ /\ th[t].st + QUEUE_SIZE # th[t].sh
             /\ is_free(slots[i].count)
             /\ slots' = [slots EXCEPT ![i] = NewWrite(th[t].lsn, t)]
             /\ th' = [th EXCEPT ![t].pc = "enq_inc", ![t].handle = i]
    /\ UNCHANGED <<mutex, subLsn, pubLsn, openVars, head, tail, token,
                   diskVars, engineVars, hist>>
    /\ UNCHANGED extVars

\* self.0.state.fetch_add(1 << 32, Release); return Undone(slot)
EnqInc(t) ==
    /\ th[t].pc = "enq_inc"
    /\ head' = head + 1
    /\ th' = [th EXCEPT ![t].pc = "unlock"]
    /\ hist' = [hist EXCEPT !.enqueued = Append(@, th[t].lsn)]
    /\ UNCHANGED <<mutex, subLsn, pubLsn, openVars, tail, slots, token,
                   diskVars, engineVars>>
    /\ UNCHANGED extVars

\* The guard goes out of scope.
Unlock(t) ==
    /\ th[t].pc = "unlock"
    /\ mutex' = 0
    /\ th' = [th EXCEPT ![t].pc = "apply"]
    /\ UNCHANGED <<subLsn, pubLsn, openVars, head, tail, slots, token,
                   diskVars, engineVars, hist>>
    /\ UNCHANGED extVars

\* ------------------------------------------------- Core::write, commit stage
\* Engines::write: engine.write(lsn, batch) on every engine of the batch.
EnginesWrite(t) ==
    /\ th[t].pc = "apply"
    /\ mem' = [e \in Engines |->
                 IF e \in th[t].batch THEN mem[e] \cup {th[t].lsn} ELSE mem[e]]
    /\ th' = [th EXCEPT ![t].pc = "done"]
    /\ UNCHANGED <<mutex, subLsn, pubLsn, openVars, head, tail, slots, token,
                   diskVars, dur, durLsn, hist>>
    /\ UNCHANGED extVars

\* WriteCommitter::commit: let done = handle.0.done()
HandleDone(t) ==
    /\ th[t].pc = "done"
    /\ slots' = [slots EXCEPT ![th[t].handle].count = slot_done(@)]
    /\ th' = [th EXCEPT ![t].pc = "deq_load"]
    /\ UNCHANGED <<mutex, subLsn, pubLsn, openVars, head, tail, token,
                   diskVars, engineVars, hist>>
    /\ UNCHANGED extVars

\* ------------------------------------------------- Consumer::dequeue
\* let mut state = self.0.state.load(Acquire)
DeqLoad(t) ==
    /\ th[t].pc = "deq_load"
    /\ th' = [th EXCEPT ![t].pc = "deq_check", ![t].sh = head, ![t].st = tail]
    /\ UNCHANGED <<mutex, subLsn, pubLsn, openVars, head, tail, slots, token,
                   diskVars, engineVars, hist>>
    /\ UNCHANGED extVars

\* The top of the loop: None when head == tail or the tail slot is not done.
DeqCheck(t) ==
    /\ th[t].pc = "deq_check"
    /\ \/ /\ th[t].sh = th[t].st
          /\ th' = [th EXCEPT ![t].pc = "wait"]
       \/ /\ th[t].sh # th[t].st
          /\ ~is_done(slots[slot(th[t].st)].count)
          /\ th' = [th EXCEPT ![t].pc = "wait"]
       \/ /\ th[t].sh # th[t].st
          /\ is_done(slots[slot(th[t].st)].count)
          /\ th' = [th EXCEPT ![t].pc = "deq_cas"]
    /\ UNCHANGED <<mutex, subLsn, pubLsn, openVars, head, tail, slots, token,
                   diskVars, engineVars, hist>>
    /\ UNCHANGED extVars

\* compare_exchange_weak(state, pack(head, tail + 1)): Some(Done(slot)) when it
\* succeeds; when it fails (another thread moved the state, or spuriously) the
\* loop runs again from the state it read.
cas_state_unchecked(t) == TRUE
cas_state(t) == head = th[t].sh /\ tail = th[t].st

DeqCas(t) ==
    /\ th[t].pc = "deq_cas"
    /\ \/ /\ cas_state(t)
          /\ tail' = th[t].st + 1
          /\ th' = [th EXCEPT ![t].pc = "pub_load", ![t].item = slot(th[t].st)]
          /\ hist' = [hist EXCEPT
                        !.dequeued = Append(@, slots[slot(th[t].st)].lsn)]
       \/ /\ th' = [th EXCEPT ![t].pc = "deq_check", ![t].sh = head, ![t].st = tail]
          /\ UNCHANGED <<tail, hist>>
    /\ UNCHANGED <<mutex, subLsn, pubLsn, openVars, head, slots, token,
                   diskVars, engineVars>>
    /\ UNCHANGED extVars

\* ------------------------------------------------- WriteCommitter::publish
\* let mut old = self.lsn.load(Relaxed)
PubLoadSkipped(t) ==
    /\ th[t].pc = "pub_load"
    /\ th' = [th EXCEPT ![t].pc = "item_publish", ![t].old = pubLsn]
    /\ UNCHANGED <<mutex, subLsn, pubLsn, openVars, head, tail, slots, token,
                   diskVars, engineVars, hist>>
    /\ UNCHANGED extVars

PubLoad(t) ==
    /\ th[t].pc = "pub_load"
    /\ th' = [th EXCEPT ![t].pc = "pub_cas", ![t].old = pubLsn]
    /\ UNCHANGED <<mutex, subLsn, pubLsn, openVars, head, tail, slots, token,
                   diskVars, engineVars, hist>>
    /\ UNCHANGED extVars

\* while old < lsn { compare_exchange_weak(old, lsn) }
publish_needed_always(old, lsn) == old # lsn
publish_needed_never(old, lsn) == FALSE
publish_needed(old, lsn) == old < lsn

PubCas(t) ==
    /\ th[t].pc = "pub_cas"
    /\ LET lsn == slots[th[t].item].lsn
       IN \/ /\ publish_needed(th[t].old, lsn)
             /\ pubLsn = th[t].old
             /\ pubLsn' = lsn
             /\ th' = [th EXCEPT ![t].pc = "item_publish"]
          \/ /\ publish_needed(th[t].old, lsn)
             /\ th' = [th EXCEPT ![t].old = pubLsn]
             /\ th'[t].old # th[t].old
             /\ UNCHANGED pubLsn
          \/ /\ ~publish_needed(th[t].old, lsn)
             /\ th' = [th EXCEPT ![t].pc = "item_publish"]
             /\ UNCHANGED pubLsn
    /\ UNCHANGED <<mutex, subLsn, openVars, head, tail, slots, token,
                   diskVars, engineVars, hist>>
    /\ UNCHANGED extVars

\* item.publish(): is_published.store(true, Release)
ItemPublish(t) ==
    /\ th[t].pc = "item_publish"
    /\ slots' = [slots EXCEPT ![th[t].item].is_published = TRUE]
    /\ th' = [th EXCEPT ![t].pc = "item_wake"]
    /\ UNCHANGED <<mutex, subLsn, pubLsn, openVars, head, tail, token,
                   diskVars, engineVars, hist>>
    /\ UNCHANGED extVars

\* item.wake() without the unpark.
ItemWakeLost(t) ==
    /\ th[t].pc = "item_wake"
    /\ th' = [th EXCEPT ![t].pc = "item_drop"]
    /\ UNCHANGED <<mutex, subLsn, pubLsn, openVars, head, tail, slots, token,
                   diskVars, engineVars, hist>>
    /\ UNCHANGED extVars

\* item.wake(): self.thread.unpark()
ItemWake(t) ==
    /\ th[t].pc = "item_wake"
    /\ token' = [token EXCEPT ![slots[th[t].item].thread] = TRUE]
    /\ th' = [th EXCEPT ![t].pc = "item_drop"]
    /\ UNCHANGED <<mutex, subLsn, pubLsn, openVars, head, tail, slots,
                   diskVars, engineVars, hist>>
    /\ UNCHANGED extVars

\* The end of the loop body drops the Done guard of the dequeued item.
ItemDrop(t) ==
    /\ th[t].pc = "item_drop"
    /\ slots' = [slots EXCEPT ![th[t].item].count = done_drop(@)]
    /\ th' = [th EXCEPT ![t].pc = "deq_load", ![t].item = NoSlot]
    /\ UNCHANGED <<mutex, subLsn, pubLsn, openVars, head, tail, token,
                   diskVars, engineVars, hist>>
    /\ UNCHANGED extVars

\* ------------------------------------------------- Write::wait
\* while !self.is_published() { thread::park() }
wait_over_at_once(t) == TRUE
wait_over(t) == slots[th[t].handle].is_published

WaitCheck(t) ==
    /\ th[t].pc = "wait"
    /\ \/ /\ wait_over(t)
          /\ th' = [th EXCEPT ![t].pc = "ret"]
       \/ /\ ~wait_over(t)
          /\ th' = [th EXCEPT ![t].pc = "park"]
    /\ UNCHANGED <<mutex, subLsn, pubLsn, openVars, head, tail, slots, token,
                   diskVars, engineVars, hist>>
    /\ UNCHANGED extVars

\* thread::park(): returns once the thread's token is set, and clears it.
Park(t) ==
    /\ th[t].pc = "park"
    /\ token[t]
    /\ token' = [token EXCEPT ![t] = FALSE]
    /\ th' = [th EXCEPT ![t].pc = "wait"]
    /\ UNCHANGED <<mutex, subLsn, pubLsn, openVars, head, tail, slots,
                   diskVars, engineVars, hist>>
    /\ UNCHANGED extVars

\* commit returns (dropping `done`) and Core::write returns Ok(()).
Return(t) ==
    /\ th[t].pc = "ret"
    /\ slots' = [slots EXCEPT ![th[t].handle].count = done_drop(@)]
    /\ hist' = [hist EXCEPT
                  !.returned = @ \cup {th[t].lsn},
                  !.committed = @ \cup {[lsn |-> th[t].lsn, targets |-> th[t].batch]}]
    /\ th' = [th EXCEPT ![t] = IdleThread]
    /\ UNCHANGED <<mutex, subLsn, pubLsn, openVars, head, tail, token,
                   diskVars, engineVars>>
    /\ UNCHANGED extVars

\* ------------------------------------------------- the pipeline specification
\* create_pipeline(lsn): the submitter and the committer both start at lsn.
pipeline_from_zero(lsn) == [sub |-> lsn, pub |-> 0]
create_pipeline(lsn) == [sub |-> lsn, pub |-> lsn]

\* An open database right after Core::open recovered up to initLsn; every
\* engine holds what it was sent up to there.
Init ==
    /\ initLsn \in 0..MaxInitLsn
    /\ subLsn = create_pipeline(initLsn).sub
    /\ pubLsn = create_pipeline(initLsn).pub
    /\ th = [t \in Threads |-> IdleThread]
    /\ mutex = 0
    /\ head = 0
    /\ tail = 0
    /\ slots = [i \in 0..(QUEUE_SIZE - 1) |-> DefaultSlot]
    /\ token = [t \in Threads |-> FALSE]
    /\ cur = initLsn + 1
    /\ files = [id \in {cur} |-> <<>>]
    /\ wbuf = <<>>
    /\ mem = [e \in Engines |-> {}]
    /\ dur = [e \in Engines |-> {}]
    /\ durLsn = [e \in Engines |-> initLsn]
    /\ core = [open |-> TRUE, opens |-> 1, result |-> OpenOk]
    /\ hist = EmptyHist
    /\ ExtIdle

Next ==
    \E t \in Threads :
        \/ Lock(t)
        \/ NextLsn(t)
        \/ JournalWrite(t)
        \/ EnqLoad(t)
        \/ EnqCheck(t)
        \/ EnqInc(t)
        \/ Unlock(t)
        \/ EnginesWrite(t)
        \/ HandleDone(t)
        \/ DeqLoad(t)
        \/ DeqCheck(t)
        \/ DeqCas(t)
        \/ PubLoad(t)
        \/ PubCas(t)
        \/ ItemPublish(t)
        \/ ItemWake(t)
        \/ ItemDrop(t)
        \/ WaitCheck(t)
        \/ Park(t)
        \/ Return(t)

Spec == Init /\ [][Next]_vars

\* ------------------------------------------------- properties of the pipeline
InFlight(t) == th[t].pc \notin {"idle", "next_lsn"}
Submitted(t) == th[t].handle # NoSlot /\ th[t].pc # "enq_inc"
Enqueued == Range(hist.enqueued)
Dequeued == Range(hist.dequeued)
\* The DONE bit of a count.
DoneBit(count) == count >= DONE
IsPrefix(s, r) == Len(s) <= Len(r) /\ \A i \in 1..Len(s) : s[i] = r[i]
StrictlyIncreasing(s) == \A i \in 1..(Len(s) - 1) : s[i].lsn < s[i + 1].lsn

\* C1: when a write that was assigned LSN L returns Ok (commit has left
\* Write::wait and returns), the published LSN is already >= L, in every
\* interleaving of concurrent writes.
C1_ReturnedIsPublished ==
    /\ \A t \in Threads : th[t].pc = "ret" => pubLsn >= th[t].lsn
    /\ \A l \in hist.returned : pubLsn >= l

C1_Witness ==
    \E t \in Threads, u \in Threads :
        /\ th[t].pc = "ret"
        /\ th[u].pc \in {"wait", "park"}
        /\ th[u].lsn < th[t].lsn
        /\ hist.returned = {}

\* C4: every write gets its own LSN, and the records of every journal file
\* are in strictly increasing LSN order.
C4_JournalOrdered ==
    /\ \A t \in Threads, u \in Threads :
          (t # u /\ InFlight(t) /\ InFlight(u)) => th[t].lsn # th[u].lsn
    /\ \A t \in Threads :
          InFlight(t) => th[t].lsn \notin (hist.returned \cup hist.failed)
    /\ \A id \in DOMAIN files : StrictlyIncreasing(files[id] \o wbuf)

C4_Witness ==
    /\ Len(files[cur]) >= 2
    /\ \E t \in Threads, u \in Threads :
          /\ th[t].pc = "apply" /\ th[u].pc = "apply"
          /\ th[t].lsn < th[u].lsn

\* C5: the published LSN never decreases and is never below the LSN given to
\* create_pipeline.
C5_PublishedMonotonic ==
    /\ [][pubLsn' >= pubLsn]_vars
    /\ [](pubLsn >= initLsn)

C5_Witness ==
    /\ initLsn > 0
    /\ pubLsn >= initLsn + 2
    /\ \E t \in Threads :
          th[t].pc = "pub_cas" /\ slots[th[t].item].lsn < pubLsn

\* C6: once commit has returned for a write W, every write submitted with an
\* LSN <= W.lsn has been dequeued and the published LSN is >= its LSN.
C6_CommitPublishesPrefix ==
    \A l \in hist.returned \cup {th[t].lsn : t \in {u \in Threads : th[u].pc = "ret"}} :
        \A k \in Enqueued :
            k <= l => (k \in Dequeued /\ pubLsn >= k)

C6_Witness ==
    \E l \in hist.returned :
        /\ \E k \in Enqueued : k < l /\ k \notin hist.returned
        /\ \E t \in Threads : th[t].pc = "item_wake" /\ slots[th[t].item].lsn < l

\* C7: every enqueued value is handed out by exactly one successful dequeue:
\* none twice, none that was not enqueued, none left once the queue is at
\* rest; and when all enqueued items have been dequeued the ring is empty
\* (head = tail), so dequeue returns None.
C7_ExactlyOnce ==
    /\ \A i \in 1..Len(hist.dequeued), j \in 1..Len(hist.dequeued) :
          i # j => hist.dequeued[i] # hist.dequeued[j]
    /\ Dequeued \subseteq Enqueued
    /\ (\A t \in Threads : th[t].pc = "idle") => Dequeued = Enqueued
    /\ Len(hist.dequeued) = Len(hist.enqueued) => head = tail

C7_Witness ==
    /\ Len(hist.dequeued) = MaxWrites
    /\ \A t \in Threads : th[t].pc = "idle"
    /\ \E i \in 1..MaxWrites : hist.dequeued[i] = initLsn + MaxWrites

\* C8: dequeue hands out items in enqueue order, and only an item whose
\* handle was marked done: a dequeue succeeds only when the ring is not
\* empty and the item at the tail carries the DONE bit.
DequeueSucceeds(t) == th[t].pc = "deq_cas" /\ th'[t].pc = "pub_load"

C8_FifoDoneOnly ==
    /\ [](IsPrefix(hist.dequeued, hist.enqueued))
    /\ [][\A t \in Threads :
            DequeueSucceeds(t) =>
                /\ head # tail
                /\ DoneBit(slots[slot(tail)].count)
                /\ th'[t].item = slot(tail)]_vars

\* The tail item is undone, the one behind it is done, and a committer has
\* come back from dequeue with None.
C8_Witness ==
    /\ head = tail + 2
    /\ ~DoneBit(slots[slot(tail)].count)
    /\ DoneBit(slots[slot(tail + 1)].count)
    /\ \E t \in Threads :
          th[t].pc \in {"wait", "park"} /\ th[t].handle = slot(tail + 1)

\* C9: a slot's value is replaced only when the slot is free (count = DONE)
\* and no Undone handle or Done guard of the value it held is alive.
Holders(i) == {t \in Threads : th[t].handle = i \/ th[t].item = i}

C9_StoreOnlyWhenFree ==
    [][\A i \in DOMAIN slots :
          (slots'[i].lsn # slots[i].lsn \/ slots'[i].thread # slots[i].thread) =>
              (slots[i].count = DONE /\ Holders(i) = {})]_vars

\* The producer is about to store into a slot that held an earlier item, and
\* a slot it had to wait for.
C9_Witness ==
    \E t \in Threads :
        /\ th[t].pc = "enq_inc"
        /\ head >= QUEUE_SIZE
        /\ \E u \in Threads : u # t /\ th[u].handle # NoSlot

\* ------------------------------------------------- Recover::recover
RECURSIVE SortedIds(_)
\* FileSet.journals is a BTreeSet: its ids come out in ascending order.
SortedIds(S) ==
    IF S = {} THEN <<>> ELSE <<Min(S)>> \o SortedIds(S \ {Min(S)})

\* Only the journals after min_lsn.
journals_to_recover_after(list, min_lsn) ==
    SortedIds({id \in list : id > min_lsn})

\* Recover::journals_to_recover: the last journal with id <= min_lsn, then
\* every journal after it.
journals_to_recover(list, min_lsn) ==
    LET ids == SortedIds(list)
        low == {i \in 1..Len(ids) : \A j \in 1..i : ids[j] <= min_lsn}
        first == IF low = {} THEN <<>> ELSE <<ids[Max(low)]>>
    IN first \o SubSeq(ids, Cardinality(low) + 1, Len(ids))

\* EngineHandle::last_lsn of an engine whose writes since open are m[e].
EngineLast(m, e) == Max(m[e] \cup {durLsn[e]})

\* Engines::min_last_lsn and Engines::max_last_lsn.
min_last_lsn(m) == Min({EngineLast(m, e) : e \in Engines})
max_last_lsn_lowest(m) == Min({EngineLast(m, e) : e \in Engines})
max_last_lsn(m) == Max({EngineLast(m, e) : e \in Engines})

\* Engines::recover: the batch goes to each of its engines whose last LSN is
\* below the record's.
Engines_recover_all(m, lsn, targets) ==
    [e \in Engines |-> IF e \in targets THEN m[e] \cup {lsn} ELSE m[e]]
Engines_recover(m, lsn, targets) ==
    [e \in Engines |->
        IF e \in targets /\ EngineLast(m, e) < lsn THEN m[e] \cup {lsn} ELSE m[e]]

\* The check `lsn != self.last_lsn + 1` of the replay loop.
lsn_in_sequence_loose(lsn, last) == lsn > last
lsn_in_sequence(lsn, last) == lsn = last + 1

\* The records of the journals to recover, in reading order, each with the id
\* of its file.
RECURSIVE RecordsOf(_)
RecordsOf(ids) ==
    IF ids = <<>> THEN <<>>
    ELSE [k \in 1..Len(files[Head(ids)]) |->
             [id |-> Head(ids), rec |-> files[Head(ids)][k]]]
         \o RecordsOf(Tail(ids))

RECURSIVE Replay(_, _, _, _)
\* The loops of Recover::recover over the journals and their records.
Replay(recs, i, min_lsn, st) ==
    IF i > Len(recs) THEN st
    ELSE LET id == recs[i].id
             r == recs[i].rec
         IN IF r.lsn <= min_lsn THEN Replay(recs, i + 1, min_lsn, st)
            ELSE IF ~lsn_in_sequence(r.lsn, st.last)
                 THEN [st EXCEPT !.result = Corrupted(id, r.lsn, st.last)]
            ELSE Replay(recs, i + 1, min_lsn,
                        [last |-> r.lsn,
                         m |-> Engines_recover(st.m, r.lsn, r.targets),
                         result |-> st.result])

\* Recover::recover on engines that were just opened: the journals it read,
\* the last LSN, the engines' writes, and Ok or the error.
Recover ==
    LET m0 == [e \in Engines |-> {}]
        min_lsn == min_last_lsn(m0)
        journals == journals_to_recover(DOMAIN files, min_lsn)
        st == Replay(RecordsOf(journals), 1, min_lsn,
                     [last |-> min_lsn, m |-> m0, result |-> OpenOk])
        max_lsn == max_last_lsn(st.m)
    IN [journals |-> Range(journals),
        last_lsn |-> st.last,
        m |-> st.m,
        result |-> IF st.result.kind = "corrupted" THEN st.result
                   ELSE IF st.last < max_lsn
                        THEN Corrupted(RootPath, st.last, max_lsn)
                   ELSE OpenOk]

\* ------------------------------------------------- the life of a directory
\* Core::open from the engines' opening on: recovery, then the new journal
\* journal-<last_lsn + 1> and the pipeline. A failed recovery returns the
\* error and leaves the files as they are.
Open ==
    /\ ~core.open
    /\ core.opens < MaxOpens
    /\ LET r == Recover
       IN /\ mem' = r.m
          /\ core' = [open |-> r.result.kind = "ok", opens |-> core.opens + 1,
                      result |-> r.result]
          /\ IF r.result.kind = "ok"
             THEN /\ cur' = r.last_lsn + 1
                  /\ files' = [id \in (DOMAIN files \ r.journals) \cup {cur'} |->
                                  IF id = cur' THEN <<>> ELSE files[id]]
                  /\ wbuf' = <<>>
                  /\ initLsn' = r.last_lsn
                  /\ subLsn' = create_pipeline(r.last_lsn).sub
                  /\ pubLsn' = create_pipeline(r.last_lsn).pub
             ELSE UNCHANGED <<files, cur, wbuf, initLsn, subLsn, pubLsn>>
    /\ UNCHANGED <<pipeVars, dur, durLsn, hist>>
    /\ UNCHANGED extVars

\* Core::write as one step, by a single caller.
Write ==
    /\ core.open
    /\ hist.writes < MaxWrites
    /\ \E b \in SUBSET Engines :
         LET lsn == next_lsn(subLsn)
             rec == [lsn |-> lsn, targets |-> b]
             buf == Append(wbuf, rec)
         IN /\ subLsn' = lsn
            /\ \/ /\ files' = [files EXCEPT ![cur] = files[cur] \o buf]
                  /\ wbuf' = <<>>
                  /\ mem' = [e \in Engines |->
                               IF e \in b THEN mem[e] \cup {lsn} ELSE mem[e]]
                  /\ pubLsn' = IF publish_needed(pubLsn, lsn) THEN lsn ELSE pubLsn
                  /\ hist' = [hist EXCEPT !.returned = @ \cup {lsn},
                                          !.committed = @ \cup {rec},
                                          !.writes = @ + 1]
               \/ /\ wbuf' = buf
                  /\ hist' = [hist EXCEPT !.failed = @ \cup {lsn},
                                          !.writes = @ + 1]
                  /\ UNCHANGED <<files, mem, pubLsn>>
               \/ /\ files' = [files EXCEPT ![cur] = files[cur] \o buf]
                  /\ wbuf' = <<>>
                  /\ hist' = [hist EXCEPT !.failed = @ \cup {lsn},
                                          !.writes = @ + 1]
                  /\ UNCHANGED <<mem, pubLsn>>
    /\ UNCHANGED <<pipeVars, cur, openVars, dur, durLsn>>
    /\ UNCHANGED extVars

\* An engine makes durable what it was sent, up to some published LSN, and
\* that LSN becomes its durable last LSN.
Flush(e) ==
    /\ core.open
    /\ \E d \in (durLsn[e] + 1)..pubLsn :
          /\ durLsn' = [durLsn EXCEPT ![e] = d]
          /\ dur' = [dur EXCEPT ![e] = @ \cup {l \in mem[e] : l <= d}]
    /\ UNCHANGED <<pipeVars, subLsn, pubLsn, diskVars, openVars, mem, hist>>
    /\ UNCHANGED extVars

\* The process ends (the Core is dropped, or the process crashes): what the
\* journal writer buffered and what the engines hold in memory is gone.
Close ==
    /\ core.open
    /\ core' = [core EXCEPT !.open = FALSE]
    /\ wbuf' = <<>>
    /\ mem' = [e \in Engines |-> {}]
    /\ UNCHANGED <<pipeVars, subLsn, pubLsn, initLsn, files, cur, dur, durLsn,
                   hist>>
    /\ UNCHANGED extVars

\* A directory that was never opened.
InitRecover ==
    /\ initLsn = 0
    /\ subLsn = 0
    /\ pubLsn = 0
    /\ th = [t \in Threads |-> IdleThread]
    /\ mutex = 0
    /\ head = 0
    /\ tail = 0
    /\ slots = [i \in 0..(QUEUE_SIZE - 1) |-> DefaultSlot]
    /\ token = [t \in Threads |-> FALSE]
    /\ cur = 0
    /\ files = <<>>
    /\ wbuf = <<>>
    /\ mem = [e \in Engines |-> {}]
    /\ dur = [e \in Engines |-> {}]
    /\ durLsn = [e \in Engines |-> 0]
    /\ core = [open |-> FALSE, opens |-> 0, result |-> NotOpened]
    /\ hist = EmptyHist
    /\ ExtIdle

NextRecover ==
    \/ Open
    \/ Write
    \/ \E e \in Engines : Flush(e)
    \/ Close

SpecRecover == InitRecover /\ [][NextRecover]_vars

\* ------------------------------------------------- opening any directory
\* Core::open on a directory as it may be found: up to MaxDiskFiles journal
\* files of up to MaxDiskLen records each, and engines that hold durably
\* everything up to their last LSN.
DiskBatches == {{1}, Engines}
DiskRecords == [lsn : 1..MaxDiskLsn, targets : DiskBatches]
DiskContents == UNION {[1..n -> DiskRecords] : n \in 0..MaxDiskLen}
DiskIds == {S \in SUBSET (1..(MaxDiskFiles + 1)) :
               S # {} /\ Cardinality(S) <= MaxDiskFiles}

InitDisk ==
    /\ initLsn = 0
    /\ subLsn = 0
    /\ pubLsn = 0
    /\ th = [t \in Threads |-> IdleThread]
    /\ mutex = 0
    /\ head = 0
    /\ tail = 0
    /\ slots = [i \in 0..(QUEUE_SIZE - 1) |-> DefaultSlot]
    /\ token = [t \in Threads |-> FALSE]
    /\ cur = 0
    /\ \E ids \in DiskIds : files \in [ids -> DiskContents]
    /\ wbuf = <<>>
    /\ mem = [e \in Engines |-> {}]
    /\ durLsn \in [Engines -> 0..MaxDurLsn]
    /\ dur = [e \in Engines |-> 1..durLsn[e]]
    /\ core = [open |-> FALSE, opens |-> 0, result |-> NotOpened]
    /\ hist = EmptyHist
    /\ ExtIdle

NextDisk == Open

SpecDisk == InitDisk /\ [][NextDisk]_vars

\* ------------------------------------------------- properties of recovery
MinDurLsn == Min({durLsn[e] : e \in Engines})
InJournal(w) ==
    \E id \in DOMAIN files : \E k \in 1..Len(files[id]) : files[id][k] = w
\* The file is gone, or was created anew.
Deleted(id) == id \notin DOMAIN files' \/ ~IsPrefix(files[id], files'[id])
\* The writes an engine holds, and those it was a target of.
EngineState(e) == dur[e] \cup mem[e]
Expected(e) == {w.lsn : w \in {x \in hist.committed : e \in x.targets}}
OpenStep == ~core.open /\ core'.opens = core.opens + 1

\* C2: a journal file is deleted only when all its records have an LSN <= the
\* smallest durable last LSN of the engines, so that every committed write is
\* held durably by each engine it targets or is still in a journal file.
C2_JournalKeptUntilDurable ==
    /\ [][\A id \in DOMAIN files :
            Deleted(id) =>
                \A k \in 1..Len(files[id]) : files[id][k].lsn <= MinDurLsn]_vars
    /\ [](\A w \in hist.committed :
            \A e \in w.targets : w.lsn \in dur[e] \/ InJournal(w))

\* C3: after open, successful writes, close and open again, the open
\* succeeds and every engine holds exactly the committed writes that
\* targeted it.
C3_ReopenRestoresWrites ==
    (hist.failed = {} /\ core.opens >= 2) =>
        /\ core.result.kind = "ok"
        /\ core.open => \A e \in Engines : EngineState(e) = Expected(e)

\* C10: when recovery reads a record with an LSN above min_lsn that is not
\* the previous LSN + 1, open fails with Corrupted naming that journal file,
\* and engines have received nothing but the records before it.
Replayed ==
    SelectSeq(RecordsOf(journals_to_recover(DOMAIN files, MinDurLsn)),
              LAMBDA x : x.rec.lsn > MinDurLsn)
FirstOutOfSequence ==
    {k \in 1..Len(Replayed) :
        /\ Replayed[k].rec.lsn # MinDurLsn + k
        /\ \A j \in 1..(k - 1) : Replayed[j].rec.lsn = MinDurLsn + j}

C10_GapFailsOpen ==
    [][OpenStep =>
         \A k \in FirstOutOfSequence :
             /\ ~core'.open
             /\ core'.result =
                    Corrupted(Replayed[k].id, Replayed[k].rec.lsn, MinDurLsn + k - 1)
             /\ \A e \in Engines :
                    mem'[e] \subseteq {Replayed[j].rec.lsn : j \in 1..(k - 1)}
             /\ files' = files]_vars

\* An open that failed on a gap after it had replayed a record, with a
\* further record behind the gap.
C10_Witness ==
    /\ core.result.kind = "corrupted"
    /\ core.result.name # RootPath
    /\ core.result.lsn > core.result.prev + 1
    /\ \E e \in Engines : core.result.prev \in mem[e]
    /\ \E k \in 1..(Len(files[core.result.name]) - 1) :
          files[core.result.name][k].lsn = core.result.lsn

\* C11: when the last LSN recovered from the journals is below the largest
\* last LSN of the engines, open fails with Corrupted naming the root
\* directory; after a successful open the recovered last LSN is at least
\* every engine's last LSN.
MaxDurLsnOnDisk == Max({durLsn[e] : e \in Engines})
C11_StaleJournalsFailOpen ==
    [][OpenStep =>
         /\ (FirstOutOfSequence = {} /\
             MinDurLsn + Len(Replayed) < MaxDurLsnOnDisk) =>
                /\ ~core'.open
                /\ core'.result =
                       Corrupted(RootPath, MinDurLsn + Len(Replayed),
                                 MaxDurLsnOnDisk)
                /\ files' = files
         /\ core'.open =>
                \A e \in Engines : initLsn' >= EngineLast(mem', e)]_vars

\* An open that replayed a record and still ended below an engine's last LSN.
C11_Witness ==
    /\ core.result.kind = "corrupted"
    /\ core.result.name = RootPath
    /\ core.result.lsn > MinDurLsn
    /\ \E e \in Engines : mem[e] # {}

\* C12: in every state of an open database, writes in flight included, each
\* engine's last LSN is at most the published LSN.
C12_EngineLsnPublished ==
    \A e \in Engines : last_lsn(e) <= pubLsn

\* C12 as the code keeps it: an engine's last LSN is at most the last LSN
\* the submitter gave out, every LSN an engine holds above the published LSN
\* belongs to a write that has not yet returned, and with no write in flight
\* each engine's last LSN is at most the published LSN.
C12_EngineLsnSubmitted ==
    \A e \in Engines :
        /\ last_lsn(e) <= subLsn
        /\ \A l \in mem[e] :
              l > pubLsn => \E t \in Threads :
                               th[t].lsn = l /\ th[t].pc # "idle"
        /\ (\A t \in Threads : th[t].pc = "idle") => last_lsn(e) <= pubLsn

\* All writes have returned, after one was written to the engines while it
\* was not yet published.
C12_Witness ==
    /\ \A t \in Threads : th[t].pc = "idle"
    /\ \A e \in Engines : last_lsn(e) = pubLsn
    /\ pubLsn >= initLsn + 2

\* ------------------------------------------------- Core::open, step by step
\* Instances open the same path, each with its own Builder; the steps of
\* Core::open up to the recovery are actions, so that instances interleave
\* and a crash can fall between any two steps.
DescIds(desc) == {desc.engines[k].id : k \in 1..Len(desc.engines)}
DescNames(desc) == {desc.engines[k].name : k \in 1..Len(desc.engines)}
\* desc.engines.iter().find(|e| e.name == name)
DescFind(desc, name) ==
    LET k == CHOOSE k \in 1..Len(desc.engines) : desc.engines[k].name = name
    IN desc.engines[k].id

\* An error return of Core::open (the RootDir, if any, is dropped with it).
Failed(i, kind) ==
    [IdleInst EXCEPT !.result = kind, !.opens = inst[i].opens]
\* Dropping the RootDir drops its LockedFile, which releases the lock.
Unlocked(i) == IF lock = i THEN 0 ELSE lock

\* Builder::validate
builder_valid_any(exists, not_exist) == TRUE
builder_valid(exists, not_exist) == ~(exists /\ not_exist)

RECURSIVE RootOpens(_)
\* The calls of Core::open so far, over the instances in I.
RootOpens(I) ==
    IF I = {} THEN 0
    ELSE LET i == CHOOSE i \in I : TRUE IN inst[i].opens + RootOpens(I \ {i})

\* Core::open is called: options.validate(), builder.validate().
StartOpen(i) ==
    /\ inst[i].pc = "idle"
    /\ RootOpens(Instances) < MaxRootOpens
    /\ \E names \in SUBSET EngineNames, ex \in BOOLEAN, nx \in BOOLEAN :
          inst' = [inst EXCEPT ![i] =
                     IF builder_valid(ex, nx)
                     THEN [IdleInst EXCEPT !.pc = "open_dir",
                                           !.opens = inst[i].opens + 1,
                                           !.registered = names,
                                           !.engines = names,
                                           !.error_if_exists = ex,
                                           !.error_if_not_exist = nx]
                     ELSE [IdleInst EXCEPT !.result = "InvalidArgument",
                                           !.opens = inst[i].opens + 1,
                                           !.error_if_exists = ex,
                                           !.error_if_not_exist = nx]]
    /\ UNCHANGED <<baseVars, root, lock>>
    /\ UNCHANGED offRootVars

\* Open or create `path`.
OpenDir(i) ==
    /\ inst[i].pc = "open_dir"
    /\ IF root.exists
       THEN /\ inst' = [inst EXCEPT ![i].pc = "lock"]
            /\ UNCHANGED root
       ELSE IF inst[i].error_if_not_exist
       THEN /\ inst' = [inst EXCEPT ![i] = Failed(i, "NotExist")]
            /\ UNCHANGED root
       ELSE /\ root' = [root EXCEPT !.exists = TRUE]
            /\ inst' = [inst EXCEPT ![i].pc = "lock"]
    /\ UNCHANGED <<baseVars, lock>>
    /\ UNCHANGED offRootVars

\* dir.lock_file(LOCK): File::create, then try_lock.
lock_free_always == TRUE
lock_free == lock = 0

\* RootDir::lock
LockRoot(i) ==
    /\ inst[i].pc = "lock"
    /\ root' = [root EXCEPT !.lockfile = TRUE]
    /\ IF lock_free
       THEN /\ lock' = i
            /\ inst' = [inst EXCEPT ![i].pc = "read_manifest"]
       ELSE /\ inst' = [inst EXCEPT ![i] = Failed(i, "Locked")]
            /\ UNCHANGED lock
    /\ UNCHANGED baseVars
    /\ UNCHANGED offRootVars

\* Read the manifest file (RootDir::read_manifest and the match on it).
ReadManifest(i) ==
    /\ inst[i].pc = "read_manifest"
    /\ IF root.manifest.present /\ ~root.manifest.complete
       THEN /\ inst' = [inst EXCEPT ![i] = Failed(i, "Corrupted")]
            /\ lock' = Unlocked(i)
       ELSE IF root.manifest.present /\ inst[i].error_if_exists
       THEN /\ inst' = [inst EXCEPT ![i] = Failed(i, "Exists")]
            /\ lock' = Unlocked(i)
       ELSE IF ~root.manifest.present /\ inst[i].error_if_not_exist
       THEN /\ inst' = [inst EXCEPT ![i] = Failed(i, "NotExist")]
            /\ lock' = Unlocked(i)
       ELSE /\ inst' = [inst EXCEPT
                          ![i].pc = "cleanup",
                          ![i].desc = IF root.manifest.present
                                      THEN root.manifest.desc ELSE DefaultDesc]
            /\ UNCHANGED lock
    /\ UNCHANGED <<baseVars, root>>
    /\ UNCHANGED offRootVars

\* The engine directories that the descriptor does not list.
uncommitted_none(dirs, desc) == {}
uncommitted(dirs, desc) == {id \in dirs : id \notin DescIds(desc)}

\* Clean up uncommitted engines: one delete_engine per step, in the order of
\* the BTreeSet.
Cleanup(i) ==
    /\ inst[i].pc = "cleanup"
    /\ LET unc == uncommitted(root.engines, inst[i].desc)
       IN IF unc # {}
          THEN /\ root' = [root EXCEPT !.engines = @ \ {Min(unc)}]
               /\ UNCHANGED inst
          ELSE /\ inst' = [inst EXCEPT ![i].pc = "check_engines"]
               /\ UNCHANGED root
    /\ UNCHANGED <<baseVars, lock>>
    /\ UNCHANGED offRootVars

\* The names of the descriptor that builder.engines does not contain.
unregistered_none(desc, engines) == {}
unregistered(desc, engines) == {name \in DescNames(desc) : name \notin engines}

\* Validate engines in the builder.
CheckEngines(i) ==
    /\ inst[i].pc = "check_engines"
    /\ IF unregistered(inst[i].desc, inst[i].engines) # {}
       THEN /\ inst' = [inst EXCEPT ![i] = Failed(i, "InvalidArgument")]
            /\ lock' = Unlocked(i)
       ELSE /\ inst' = [inst EXCEPT ![i].pc = "engines"]
            /\ UNCHANGED lock
    /\ UNCHANGED <<baseVars, root>>
    /\ UNCHANGED offRootVars

\* let id = desc.last_id + 1
next_engine_id_taken(desc) == Max(DescIds(desc) \cup {1})
next_engine_id(desc) == desc.last_id + 1

\* Open or create engines in the builder: one engine per step, in the
\* arbitrary order in which the HashMap drains. A name the descriptor lists
\* is opened in its directory; a new name gets the next id, is pushed to the
\* descriptor and gets a new directory.
OpenEngine(i) ==
    /\ inst[i].pc = "engines"
    /\ inst[i].engines # {}
    /\ \E name \in inst[i].engines :
          IF name \in DescNames(inst[i].desc)
          THEN LET id == DescFind(inst[i].desc, name)
               IN IF id \in root.engines
                  THEN /\ inst' = [inst EXCEPT ![i].engines = @ \ {name},
                                               ![i].handles = @ \cup {id}]
                       /\ UNCHANGED <<root, lock>>
                  ELSE /\ inst' = [inst EXCEPT ![i] = Failed(i, "NotFound")]
                       /\ lock' = Unlocked(i)
                       /\ UNCHANGED root
          ELSE LET id == next_engine_id(inst[i].desc)
               IN /\ inst' = [inst EXCEPT
                                ![i].engines = @ \ {name},
                                ![i].handles = @ \cup {id},
                                ![i].desc = [last_id |-> id,
                                             engines |->
                                                 Append(@.engines,
                                                        [id |-> id, name |-> name])]]
                  /\ root' = [root EXCEPT !.engines = @ \cup {id}]
                  /\ UNCHANGED lock
    /\ UNCHANGED baseVars
    /\ UNCHANGED offRootVars

\* RootDir::switch_manifest, dir.write_file(TEMP, &data): File::create
\* truncates TEMP ...
WriteTempCreate(i) ==
    /\ inst[i].pc = "engines"
    /\ inst[i].engines = {}
    /\ root' = [root EXCEPT !.temp = FileOf(inst[i].desc, FALSE)]
    /\ inst' = [inst EXCEPT ![i].pc = "write_temp"]
    /\ UNCHANGED <<baseVars, lock>>
    /\ UNCHANGED offRootVars

\* ... write_all and sync_all make it complete.
WriteTempData(i) ==
    /\ inst[i].pc = "write_temp"
    /\ root' = [root EXCEPT !.temp = FileOf(inst[i].desc, TRUE)]
    /\ inst' = [inst EXCEPT ![i].pc = "rename"]
    /\ UNCHANGED <<baseVars, lock>>
    /\ UNCHANGED offRootVars

\* The position of Core::open at which switch_manifest renames.
rename_early(i) == inst[i].pc \in {"write_temp", "rename"}
rename_due(i) == inst[i].pc = "rename"

\* dir.rename_file(TEMP, MANIFEST)
RenameTemp(i) ==
    /\ rename_due(i)
    /\ root' = [root EXCEPT !.manifest = root.temp, !.temp = NoFile]
    /\ inst' = [inst EXCEPT ![i].pc = "recover"]
    /\ UNCHANGED <<baseVars, lock>>
    /\ UNCHANGED offRootVars

\* Recover::recover, create_journal(last_lsn + 1), create_pipeline: the
\* instance holds an open Core.
RecoverRoot(i) ==
    /\ inst[i].pc = "recover"
    /\ LET r == Recover
       IN IF r.result.kind = "ok"
          THEN /\ cur' = r.last_lsn + 1
               /\ files' = [id \in (DOMAIN files \ r.journals) \cup {cur'} |->
                               IF id = cur' THEN <<>> ELSE files[id]]
               /\ inst' = [inst EXCEPT ![i].pc = "opened", ![i].result = "ok"]
               /\ UNCHANGED lock
          ELSE /\ inst' = [inst EXCEPT ![i] = Failed(i, "Corrupted")]
               /\ lock' = Unlocked(i)
               /\ UNCHANGED <<files, cur>>
    /\ UNCHANGED <<pipeVars, subLsn, pubLsn, openVars, wbuf, engineVars, hist,
                   root>>
    /\ UNCHANGED offRootVars

\* The Database (the last Arc<Core>) is dropped.
DropCore(i) ==
    /\ inst[i].pc = "opened"
    /\ inst' = [inst EXCEPT ![i] = [IdleInst EXCEPT !.result = "dropped",
                                                    !.opens = inst[i].opens]]
    /\ lock' = Unlocked(i)
    /\ UNCHANGED <<baseVars, root>>
    /\ UNCHANGED offRootVars

\* The process of an instance ends anywhere in Core::open: what it holds in
\* memory is gone, its lock is released, the directory stays as it is.
CrashOpen(i) ==
    /\ inst[i].pc \notin {"idle", "opened"}
    /\ inst' = [inst EXCEPT ![i] = [IdleInst EXCEPT !.result = "crashed",
                                                    !.opens = inst[i].opens]]
    /\ lock' = Unlocked(i)
    /\ UNCHANGED <<baseVars, root>>
    /\ UNCHANGED offRootVars

\* No database is open and nothing was ever written.
BaseIdle ==
    /\ initLsn = 0
    /\ subLsn = 0
    /\ pubLsn = 0
    /\ th = [t \in Threads |-> IdleThread]
    /\ mutex = 0
    /\ head = 0
    /\ tail = 0
    /\ slots = [i \in 0..(QUEUE_SIZE - 1) |-> DefaultSlot]
    /\ token = [t \in Threads |-> FALSE]
    /\ cur = 0
    /\ files = <<>>
    /\ wbuf = <<>>
    /\ mem = [e \in Engines |-> {}]
    /\ dur = [e \in Engines |-> {}]
    /\ durLsn = [e \in Engines |-> 0]
    /\ core = [open |-> FALSE, opens |-> 0, result |-> NotOpened]
    /\ hist = EmptyHist

\* A path at which nothing exists yet.
InitRoot ==
    /\ BaseIdle
    /\ ExtIdle

NextRoot ==
    \E i \in Instances :
        \/ StartOpen(i)
        \/ OpenDir(i)
        \/ LockRoot(i)
        \/ ReadManifest(i)
        \/ Cleanup(i)
        \/ CheckEngines(i)
        \/ OpenEngine(i)
        \/ WriteTempCreate(i)
        \/ WriteTempData(i)
        \/ RenameTemp(i)
        \/ RecoverRoot(i)
        \/ DropCore(i)
        \/ CrashOpen(i)

SpecRoot == InitRoot /\ [][NextRoot]_vars

\* ------------------------------------------------- properties of Core::open
\* The instances that hold a RootDir: past RootDir::lock in Core::open, or
\* holding the opened Core.
RootHolders ==
    {i \in Instances : inst[i].pc \notin {"idle", "open_dir", "lock"}}
\* Instance i leaves Core::open with the error kind.
FailsWith(i, kind) ==
    inst[i].pc # "idle" /\ inst'[i].pc = "idle" /\ inst'[i].result = kind
\* What is on disk under the path.
OnDisk == <<root, files>>

Moves(i) == inst'[i] # inst[i] /\ ~FailsWith(i, "crashed")
\* The manifest, the engine directories and the journals under the path.
Database == <<root.manifest, root.engines, files>>

\* C14: Core::open applies the builder's existence policy. Both flags set:
\* InvalidArgument. error_if_not_exist: NotExist when the directory or its
\* MANIFEST is absent. error_if_exists: Exists when a MANIFEST is present. A
\* failing open creates or changes no MANIFEST, engine directory or journal;
\* in every other case the open goes on to open or create the database.
C14_ExistencePolicy ==
    [][\A i \in Instances :
         /\ (inst[i].pc = "idle" /\ Moves(i)) =>
               IF inst'[i].error_if_exists /\ inst'[i].error_if_not_exist
               THEN /\ inst'[i].pc = "idle"
                    /\ inst'[i].result = "InvalidArgument"
                    /\ OnDisk' = OnDisk
               ELSE inst'[i].pc = "open_dir"
         /\ (inst[i].pc = "open_dir" /\ Moves(i)) =>
               IF inst[i].error_if_not_exist /\ ~root.exists
               THEN FailsWith(i, "NotExist") /\ OnDisk' = OnDisk
               ELSE inst'[i].pc = "lock" /\ root'.exists
         /\ (inst[i].pc = "read_manifest" /\ Moves(i)) =>
               IF inst[i].error_if_not_exist /\ ~root.manifest.present
               THEN FailsWith(i, "NotExist") /\ Database' = Database
               ELSE IF inst[i].error_if_exists /\ root.manifest.present
               THEN FailsWith(i, "Exists") /\ Database' = Database
               ELSE inst'[i].pc = "cleanup"
         /\ (FailsWith(i, "NotExist") \/ FailsWith(i, "Exists")) =>
               inst[i].pc \in {"open_dir", "read_manifest"}]_vars

\* One open was refused for setting both flags, another with Exists on the
\* database that is there.
C14_Witness ==
    \E i, j \in Instances :
        /\ inst[i].result = "Exists"
        /\ root.manifest.present
        /\ inst[j].result = "InvalidArgument"
        /\ inst[j].error_if_exists /\ inst[j].error_if_not_exist

\* What MANIFEST lists: names, ids, and the listed directories on disk.
ListedNames == IF root.manifest.present THEN DescNames(root.manifest.desc) ELSE {}
ListedIds == IF root.manifest.present THEN DescIds(root.manifest.desc) ELSE {}
ListedDirs == root.engines \cap ListedIds

\* C15: an open of a database whose manifest lists a name the caller did not
\* register fails with InvalidArgument when it validates the engines, and up
\* to there it changes neither MANIFEST nor a directory MANIFEST lists.
C15_UnregisteredEngine ==
    [][\A i \in Instances :
         /\ (inst[i].pc = "check_engines" /\ Moves(i)) =>
               IF ListedNames \ inst[i].registered # {}
               THEN FailsWith(i, "InvalidArgument")
               ELSE inst'[i].pc = "engines"
         /\ (inst[i].pc \in {"open_dir", "lock", "read_manifest", "cleanup",
                             "check_engines"} /\ Moves(i)) =>
               /\ root'.manifest = root.manifest
               /\ ListedDirs' = ListedDirs]_vars

\* An open that registered only one of the two engines MANIFEST lists was
\* refused.
C15_Witness ==
    \E i \in Instances :
        /\ inst[i].result = "InvalidArgument"
        /\ ~inst[i].error_if_exists
        /\ Cardinality(ListedNames) = 2
        /\ ListedDirs = ListedIds

\* The descriptor MANIFEST holds (Desc::default() when there is none).
Committed == IF root.manifest.present THEN root.manifest.desc ELSE DefaultDesc

\* C16: over any sequence of opens with any registered engines, in MANIFEST
\* no two names share an id, no name appears twice, last_id is >= every id;
\* a commit keeps every committed name with its id, and gives the newly
\* registered names the ids last_id + 1, last_id + 2, ...
C16_StableEngineIds ==
    /\ [](LET e == Committed.engines
          IN /\ \A k, l \in 1..Len(e) :
                   k # l => (e[k].id # e[l].id /\ e[k].name # e[l].name)
             /\ \A k \in 1..Len(e) : e[k].id <= Committed.last_id)
    /\ [][root'.manifest # root.manifest =>
            LET old == Committed
                new == Committed'
            IN /\ IsPrefix(old.engines, new.engines)
               /\ \A k \in (Len(old.engines) + 1)..Len(new.engines) :
                     new.engines[k].id = old.last_id + (k - Len(old.engines))
               /\ new.last_id = old.last_id + Len(new.engines) - Len(old.engines)
               /\ \E i \in Instances :
                     /\ lock = i
                     /\ DescNames(new) = DescNames(old) \cup inst[i].registered]_vars

\* An open is about to commit a second engine next to the one committed by
\* an earlier open.
C16_Witness ==
    \E i \in Instances :
        /\ inst[i].pc = "rename"
        /\ Len(Committed.engines) = 1
        /\ Len(inst[i].desc.engines) = 2
        /\ inst[i].desc.engines[2].id = 2

\* C17: an engine directory left by an open that crashed before it committed
\* the manifest is deleted by the next open that gets to the clean-up; once
\* the clean-up is through, and after every successful open, the engine
\* directories on disk are those of the ids MANIFEST lists.
C17_UncommittedEnginesDeleted ==
    /\ [](\A i \in Instances :
            /\ inst[i].pc = "check_engines" => root.engines = ListedIds
            /\ inst[i].pc = "opened" =>
                  (root.engines = ListedIds /\ inst[i].handles \subseteq ListedIds))
    /\ [][\A id \in root.engines \ root'.engines :
            /\ id \notin ListedIds
            /\ \E i \in Instances : inst[i].pc = "cleanup" /\ lock = i]_vars

\* The clean-up has deleted engine-1 and is about to delete engine-2, both
\* left by an open that crashed before its commit.
C17_Witness ==
    \E i \in Instances :
        /\ inst[i].pc = "cleanup"
        /\ root.engines = {2}
        /\ ListedIds = {}

\* C18: MANIFEST always holds a complete descriptor, the previous one or the
\* new one: it changes only by the rename of a TEMP that was written
\* completely with the descriptor of the instance that holds the lock.
C18_ManifestAtomic ==
    /\ [](root.manifest.present => root.manifest.complete)
    /\ [][root'.manifest # root.manifest =>
            /\ root.temp.present /\ root.temp.complete
            /\ root'.manifest = root.temp
            /\ \E i \in Instances : lock = i /\ root.temp.desc = inst[i].desc]_vars

\* A crash during the write of TEMP: TEMP is partial, MANIFEST still holds
\* the previous descriptor, which differs from the one being written.
C18_Witness ==
    /\ \A i \in Instances : inst[i].pc = "idle"
    /\ \E i \in Instances : inst[i].result = "crashed"
    /\ root.temp.present /\ ~root.temp.complete
    /\ root.manifest.present /\ root.manifest.complete
    /\ root.manifest.desc # root.temp.desc

\* ------------------------------------------------- the tree engine
\* A record of a manifest file is an Edit [last_id, add, del]: add the
\* buckets it adds as [id, name], del the ids it deletes. The Desc that
\* init_file writes has the tags of an Edit that adds all its buckets.
NewEdit(last, add, del) == [last_id |-> last, add |-> add, del |-> del]
DescRecord(desc) == NewEdit(desc.last_id, desc.buckets, {})
\* The encoded length of a record, in units.
RecordSize(edit) == 1 + Cardinality(edit.add) + Cardinality(edit.del)
BucketIds(buckets) == {b.id : b \in buckets}
BucketNamesOf(buckets) == {b.name : b \in buckets}

\* Desc::merge, and its panic on the delete of a bucket that is not there.
merge_ok(desc, edit) == edit.del \subseteq BucketIds(desc.buckets \cup edit.add)
\* The last_id of the edit taken as it is.
merge_last_edit(desc, edit) ==
    [last_id |-> edit.last_id,
     buckets |-> {b \in desc.buckets \cup edit.add : b.id \notin edit.del}]
merge(desc, edit) ==
    [last_id |-> Max({desc.last_id, edit.last_id}),
     buckets |-> {b \in desc.buckets \cup edit.add : b.id \notin edit.del}]

RECURSIVE load(_, _, _)
\* Manifest::load: the edits of the file merged into Desc::default().
load(recs, k, desc) ==
    IF k > Len(recs) THEN [ok |-> TRUE, desc |-> desc]
    ELSE IF ~merge_ok(desc, recs[k]) THEN [ok |-> FALSE, desc |-> desc]
    ELSE load(recs, k + 1, merge(desc, recs[k]))

\* An error return of EngineHandle::open.
TreeFailed(kind) ==
    [NoTree EXCEPT !.result = kind, !.opens = tree.opens + 1, !.ops = tree.ops]

\* EngineHandle::open: load the current manifest.
TreeOpen ==
    /\ tree.pc = "closed"
    /\ tree.opens < MaxTreeOpens
    /\ \A t \in BucketThreads : bth[t].pc = "idle"
    /\ tree' =
         IF tdir.current = NoName
         THEN [NoTree EXCEPT !.pc = "create_manifest", !.opens = tree.opens + 1,
                             !.ops = tree.ops, !.last_id = 1]
         ELSE IF tdir.current = PartialName THEN TreeFailed("Corrupted")
         ELSE IF tdir.current \notin DOMAIN tdir.manifests
         THEN TreeFailed("NotFound")
         ELSE LET r == load(tdir.manifests[tdir.current], 1, DefaultTreeDesc)
              IN IF ~r.ok THEN TreeFailed("panic")
                 ELSE [NoTree EXCEPT !.pc = "create_manifest",
                                     !.opens = tree.opens + 1,
                                     !.ops = tree.ops,
                                     !.desc = r.desc,
                                     !.last_id = r.desc.last_id + 1]
    /\ UNCHANGED <<offTreeVars, tdir, bth>>

\* root.create_manifest(last_id): a new, empty manifest-<last_id>.
TreeCreateManifest ==
    /\ tree.pc = "create_manifest"
    /\ tdir' = [tdir EXCEPT !.manifests =
                  [id \in DOMAIN @ \cup {tree.last_id} |->
                      IF id = tree.last_id THEN <<>> ELSE @[id]]]
    /\ tree' = [tree EXCEPT !.pc = "init_file"]
    /\ UNCHANGED <<offTreeVars, bth>>

\* desc.last_id = last_id; ManifestWriter::open writes the descriptor as the
\* first record (init_file).
TreeInitFile ==
    /\ tree.pc = "init_file"
    /\ LET desc == [tree.desc EXCEPT !.last_id = tree.last_id]
           rec == DescRecord(desc)
       IN /\ tdir' = [tdir EXCEPT !.manifests[tree.last_id] = Append(@, rec)]
          /\ tree' = [tree EXCEPT !.pc = "write_temp", !.desc = desc,
                                  !.mdesc = desc, !.mfile = tree.last_id,
                                  !.msize = RecordSize(rec),
                                  !.init_size = RecordSize(rec)]
    /\ UNCHANGED <<offTreeVars, bth>>

\* RootDir::switch_current, write_file(TEMP): File::create truncates TEMP ...
TreeWriteTemp ==
    /\ tree.pc = "write_temp"
    /\ tdir' = [tdir EXCEPT !.temp = PartialName]
    /\ tree' = [tree EXCEPT !.pc = "sync_temp"]
    /\ UNCHANGED <<offTreeVars, bth>>

\* ... write_all and sync_all put the manifest's name in it.
TreeSyncTemp ==
    /\ tree.pc = "sync_temp"
    /\ tdir' = [tdir EXCEPT !.temp = tree.last_id]
    /\ tree' = [tree EXCEPT !.pc = "rename"]
    /\ UNCHANGED <<offTreeVars, bth>>

\* rename_file(TEMP, CURRENT)
TreeRenameCurrent ==
    /\ tree.pc = "rename"
    /\ tdir' = [tdir EXCEPT !.current = tdir.temp, !.temp = NoName]
    /\ tree' = [tree EXCEPT !.pc = "cleanup"]
    /\ UNCHANGED <<offTreeVars, bth>>

\* The manifest files EngineHandle::open deletes: all but the new one.
obsolete_all(ids, last) == ids
obsolete(ids, last) == {id \in ids : id # last}

\* Clean up obsolete files, one delete_manifest per step; then the handle is
\* built with the buckets of the descriptor.
TreeCleanup ==
    /\ tree.pc = "cleanup"
    /\ LET obs == obsolete(DOMAIN tdir.manifests, tree.last_id)
       IN IF obs # {}
          THEN /\ tdir' = [tdir EXCEPT !.manifests =
                             [id \in DOMAIN @ \ {Min(obs)} |-> @[id]]]
               /\ UNCHANGED tree
          ELSE /\ tree' = [tree EXCEPT !.pc = "open", !.result = "ok",
                                       !.next_id = tree.last_id + 1,
                                       !.buckets = tree.desc.buckets]
               /\ UNCHANGED tdir
    /\ UNCHANGED <<offTreeVars, bth>>

\* self.buckets.lock(): the mutex is held to the end of the operation.
buckets_lock_free_always == TRUE
buckets_lock_free == tree.mutex = 0

\* A thread calls bucket, create_bucket or delete_bucket with a name and
\* takes the lock on the buckets.
BucketCall(t) ==
    /\ tree.pc = "open"
    /\ bth[t].pc = "idle"
    /\ tree.ops < MaxTreeOps
    /\ buckets_lock_free
    /\ \E op \in {"bucket", "create_bucket", "delete_bucket"},
          name \in BucketNames :
          bth' = [bth EXCEPT ![t] = [IdleBucketThread EXCEPT
                                        !.pc = "locked", !.op = op,
                                        !.name = name]]
    /\ tree' = [tree EXCEPT !.mutex = t, !.ops = @ + 1]
    /\ UNCHANGED <<offTreeVars, tdir>>

\* The bucket of a name in the map.
BucketOf(name) == CHOOSE b \in tree.buckets : b.name = name
\* A return of the operation: the MutexGuard is dropped.
Returned(t, result) ==
    [bth[t] EXCEPT !.pc = "idle", !.result = result]
Released(t) == IF tree.mutex = t THEN 0 ELSE tree.mutex

\* buckets.get(name) / buckets.contains_key(name)
contains_never(name) == FALSE
contains(name) == name \in BucketNamesOf(tree.buckets)

\* The look-up each operation starts with: bucket returns, create_bucket and
\* delete_bucket return their error or build their edit (create_bucket
\* takes its id from next_id).
BucketCheck(t) ==
    /\ bth[t].pc = "locked"
    /\ LET name == bth[t].name
           there == contains(name)
       IN IF bth[t].op = "bucket"
          THEN /\ bth' = [bth EXCEPT ![t] =
                            Returned(t, IF there THEN "ok" ELSE "NotExist")]
               /\ tree' = [tree EXCEPT !.mutex = Released(t)]
          ELSE IF bth[t].op = "create_bucket"
          THEN IF there
               THEN /\ bth' = [bth EXCEPT ![t] = Returned(t, "Exists")]
                    /\ tree' = [tree EXCEPT !.mutex = Released(t)]
               ELSE /\ bth' = [bth EXCEPT ![t].pc = "write_edit",
                                          ![t].id = tree.next_id]
                    /\ tree' = [tree EXCEPT !.next_id = @ + 1]
          ELSE IF ~there
               THEN /\ bth' = [bth EXCEPT ![t] = Returned(t, "NotExist")]
                    /\ tree' = [tree EXCEPT !.mutex = Released(t)]
               ELSE /\ bth' = [bth EXCEPT ![t].pc = "write_edit",
                                          ![t].id = BucketOf(name).id]
                    /\ UNCHANGED tree
    /\ UNCHANGED <<offTreeVars, tdir>>

\* The edit of the operation.
EditOf(t) ==
    IF bth[t].op = "create_bucket"
    THEN NewEdit(bth[t].id, {[id |-> bth[t].id, name |-> bth[t].name]}, {})
    ELSE NewEdit(0, {}, {bth[t].id})

\* A record written through the ManifestWriter goes to the file it has
\* open, whether or not the directory still has a name for it.
Written(id, rec) ==
    [tdir EXCEPT !.manifests =
        [f \in DOMAIN @ |-> IF f = id THEN Append(@[f], rec) ELSE @[f]]]

\* ManifestWriter::should_switch_file
should_switch_file(size, init_size) ==
    size >= Max({init_size * 2, ManifestMinFileSize})

\* update_manifest: manifest.write(edit), then should_switch_file.
ManifestWrite(t) ==
    /\ bth[t].pc = "write_edit"
    /\ tdir' = Written(tree.mfile, EditOf(t))
    /\ tree' = [tree EXCEPT !.msize = @ + RecordSize(EditOf(t)),
                            !.mdesc = merge(@, EditOf(t))]
    /\ bth' = [bth EXCEPT ![t].pc =
                  IF should_switch_file(tree'.msize, tree'.init_size)
                  THEN "rot_create" ELSE "apply"]
    /\ UNCHANGED <<offTreeVars>>

\* let id = self.next_id(); self.root.create_manifest(id)
RotateCreate(t) ==
    /\ bth[t].pc = "rot_create"
    /\ LET id == tree.next_id
       IN /\ tree' = [tree EXCEPT !.next_id = id + 1]
          /\ tdir' = [tdir EXCEPT !.manifests =
                        [f \in DOMAIN @ \cup {id} |->
                            IF f = id THEN <<>> ELSE @[f]]]
          /\ bth' = [bth EXCEPT ![t].pc = "rot_init", ![t].file = id]
    /\ UNCHANGED <<offTreeVars>>

\* ManifestWriter::switch_file: the descriptor with last_id = id becomes the
\* first record of the new file.
RotateInit(t) ==
    /\ bth[t].pc = "rot_init"
    /\ LET desc == [tree.mdesc EXCEPT !.last_id = bth[t].file]
           rec == DescRecord(desc)
       IN /\ tdir' = Written(bth[t].file, rec)
          /\ tree' = [tree EXCEPT !.mdesc = desc, !.mfile = bth[t].file,
                                  !.msize = RecordSize(rec),
                                  !.init_size = RecordSize(rec)]
    /\ bth' = [bth EXCEPT ![t].pc = "rot_temp"]
    /\ UNCHANGED <<offTreeVars>>

\* self.root.switch_current(id): write_file(TEMP) in its two steps ...
RotateWriteTemp(t) ==
    /\ bth[t].pc = "rot_temp"
    /\ tdir' = [tdir EXCEPT !.temp = PartialName]
    /\ bth' = [bth EXCEPT ![t].pc = "rot_sync"]
    /\ UNCHANGED <<offTreeVars, tree>>

RotateSyncTemp(t) ==
    /\ bth[t].pc = "rot_sync"
    /\ tdir' = [tdir EXCEPT !.temp = bth[t].file]
    /\ bth' = [bth EXCEPT ![t].pc = "rot_rename"]
    /\ UNCHANGED <<offTreeVars, tree>>

\* ... and rename_file(TEMP, CURRENT).
RotateRename(t) ==
    /\ bth[t].pc = "rot_rename"
    /\ tdir' = [tdir EXCEPT !.current = tdir.temp, !.temp = NoName]
    /\ bth' = [bth EXCEPT ![t].pc = "rot_delete"]
    /\ UNCHANGED <<offTreeVars, tree>>

\* self.root.delete_manifest(id), with the id of the file just created.
RotateDelete(t) ==
    /\ bth[t].pc = "rot_delete"
    /\ tdir' = [tdir EXCEPT !.manifests =
                  [f \in DOMAIN @ \ {bth[t].file} |-> @[f]]]
    /\ bth' = [bth EXCEPT ![t].pc = "apply"]
    /\ UNCHANGED <<offTreeVars, tree>>

\* buckets.insert(name, bucket) / buckets.remove(name), and the return.
BucketApply(t) ==
    /\ bth[t].pc = "apply"
    /\ tree' = [tree EXCEPT
                  !.mutex = Released(t),
                  !.buckets =
                      IF bth[t].op = "create_bucket"
                      THEN {b \in @ : b.name # bth[t].name}
                               \cup {[id |-> bth[t].id, name |-> bth[t].name]}
                      ELSE {b \in @ : b.name # bth[t].name}]
    /\ bth' = [bth EXCEPT ![t] = Returned(t, "ok")]
    /\ UNCHANGED <<offTreeVars, tdir>>

\* The process ends: the handle and the threads are gone, the directory
\* stays as it is.
TreeCrash ==
    /\ tree.pc # "closed"
    /\ tree' = [NoTree EXCEPT !.result = "crashed", !.opens = tree.opens,
                              !.ops = tree.ops]
    /\ bth' = [t \in BucketThreads |-> IdleBucketThread]
    /\ UNCHANGED <<offTreeVars, tdir>>

\* An engine directory that Core::open has just created.
InitTree ==
    /\ BaseIdle
    /\ ExtIdle

NextTree ==
    \/ TreeOpen
    \/ TreeCreateManifest
    \/ TreeInitFile
    \/ TreeWriteTemp
    \/ TreeSyncTemp
    \/ TreeRenameCurrent
    \/ TreeCleanup
    \/ TreeCrash
    \/ \E t \in BucketThreads :
          \/ BucketCall(t)
          \/ BucketCheck(t)
          \/ ManifestWrite(t)
          \/ RotateCreate(t)
          \/ RotateInit(t)
          \/ RotateWriteTemp(t)
          \/ RotateSyncTemp(t)
          \/ RotateRename(t)
          \/ RotateDelete(t)
          \/ BucketApply(t)

SpecTree == InitTree /\ [][NextTree]_vars

\* C20: once CURRENT has been written, the manifest file it names exists.
C20_CurrentNamesManifest ==
    tdir.current # NoName => tdir.current \in DOMAIN tdir.manifests

\* Thread t returns from its bucket operation.
Returns(t) == bth[t].pc # "idle" /\ bth'[t].pc = "idle" /\ tree'.pc = "open"
Present(name) == name \in BucketNamesOf(tree.buckets)

\* C19: the engine behaves like a set of names. create_bucket(n) returns
\* Exists iff n is present and otherwise adds n; bucket(n) and
\* delete_bucket(n) return NotExist iff n is absent; a successful
\* delete_bucket removes n; nothing else changes the set, so that of two
\* concurrent create_bucket(n) at most one succeeds.
C19_BucketsAreASet ==
    [][/\ \A t \in BucketThreads :
            Returns(t) =>
               LET n == bth[t].name
                   names == BucketNamesOf(tree.buckets)
                   after == BucketNamesOf(tree'.buckets)
                   res == bth'[t].result
               IN /\ bth[t].op = "create_bucket" =>
                        /\ (res = "Exists") <=> Present(n)
                        /\ res \in {"Exists", "ok"}
                        /\ after = names \cup {n}
                  /\ bth[t].op = "bucket" =>
                        /\ (res = "NotExist") <=> ~Present(n)
                        /\ res \in {"NotExist", "ok"}
                        /\ after = names
                  /\ bth[t].op = "delete_bucket" =>
                        /\ (res = "NotExist") <=> ~Present(n)
                        /\ res \in {"NotExist", "ok"}
                        /\ after = names \ {n}
       /\ (tree.pc = "open" /\ tree'.pc = "open" /\ tree'.buckets # tree.buckets)
             => \E t \in BucketThreads : Returns(t)
       /\ \A b, c \in tree.buckets : b.name = c.name => b = c]_vars

\* A create_bucket was refused with Exists and a delete_bucket with
\* NotExist, while one bucket is there.
C19_Witness ==
    \E t, u \in BucketThreads :
        /\ tree.pc = "open"
        /\ bth[t].pc = "idle" /\ bth[t].op = "create_bucket"
        /\ bth[t].result = "Exists"
        /\ bth[u].pc = "idle" /\ bth[u].op = "delete_bucket"
        /\ bth[u].result = "NotExist"
        /\ Cardinality(tree.buckets) = 1

\* What EngineHandle::open would load from the directory as it is.
CanReload ==
    \/ tdir.current = NoName
    \/ /\ tdir.current \in DOMAIN tdir.manifests
       /\ load(tdir.manifests[tdir.current], 1, DefaultTreeDesc).ok
Reload ==
    IF tdir.current \in DOMAIN tdir.manifests
    THEN load(tdir.manifests[tdir.current], 1, DefaultTreeDesc).desc
    ELSE DefaultTreeDesc
Quiescent == tree.pc = "open" /\ \A t \in BucketThreads : bth[t].pc = "idle"

\* C21: after any sequence of successful create_bucket and delete_bucket
\* calls, rotations included, a reopen of the engine succeeds and yields the
\* same bucket names with the same ids: whenever no call is in flight the
\* directory loads to the buckets of the handle, and an open builds its
\* handle from what it loaded.
C21_ReopenRestoresBuckets ==
    /\ [](Quiescent => (CanReload /\ Reload.buckets = tree.buckets))
    /\ [][/\ (tree.pc = "closed" /\ tree'.pc = "create_manifest") =>
                tree'.desc.buckets = Reload.buckets
          /\ (tree.pc = "cleanup" /\ tree'.pc = "open") =>
                tree'.buckets = tree.desc.buckets]_vars


\* ------------------------------------------------------------ journal file
\* FragmentKind::checksum_with: the CRC32 of the kind byte and the data; two
\* checksums agree exactly when kind and data do.
checksum_with(kind, data) == <<kind>> \o data
\* The position in the file of position p of the writer's buffer.
FilePos(S, p) == Len(S.file) + (p - S.offset)

\* FileWriter::flush
flush(S) ==
    IF S.start < S.end THEN [S EXCEPT !.panicked = TRUE]
    ELSE IF S.offset < S.start
    THEN LET file == S.file \o [i \in 1..(S.start - S.offset) |->
                                    S.buffer[S.offset + i - 1]]
             offset == Len(file) % BLOCK_SIZE
         IN [S EXCEPT !.file = file, !.offset = offset, !.start = offset,
                      !.end = offset]
    ELSE S

\* FileWriter::start_fragment
start_fragment(S) ==
    LET offset == S.start
        remain == BLOCK_SIZE - (offset % BLOCK_SIZE)
        S1 == IF remain < HEADER_SIZE
              THEN [S EXCEPT !.buffer = [i \in DOMAIN S.buffer |->
                                 IF i >= offset /\ i < offset + remain
                                 THEN ZeroByte ELSE S.buffer[i]],
                             !.start = offset + remain]
              ELSE S
        S2 == IF S1.start = BUFFER_SIZE THEN flush(S1) ELSE S1
    IN [S2 EXCEPT !.end = S2.start + HEADER_SIZE]

\* FileWriter::build_fragment
build_fragment(S, is_last) ==
    LET kind == IF S.is_first_fragment
                THEN (IF is_last THEN Full ELSE First)
                ELSE (IF is_last THEN Last ELSE Middle)
        data == [i \in 1..(S.end - S.start - HEADER_SIZE) |->
                     S.buffer[S.start + HEADER_SIZE + i - 1]]
    IN IF S.end > BUFFER_SIZE \/ S.end - S.start < HEADER_SIZE
       THEN [S EXCEPT !.panicked = TRUE]
       ELSE [S EXCEPT
               !.buffer = [i \in DOMAIN S.buffer |->
                   IF i = S.start
                   THEN HeadByte(checksum_with(kind, data), Len(data) % SizeMod, kind)
                   ELSE IF i > S.start /\ i < S.start + HEADER_SIZE THEN HeadRest
                   ELSE S.buffer[i]],
               !.frags = Append(S.frags,
                   [from |-> FilePos(S, S.start), to |-> FilePos(S, S.end),
                    record |-> Len(jlog.records) + 1]),
               !.start = S.end,
               !.is_first_fragment = is_last]

\* FileWriter::append
RECURSIVE append(_, _)
append(S, data) ==
    LET S1 == IF S.start >= S.end THEN start_fragment(S) ELSE S
        end == S1.end
        room == BLOCK_SIZE - (end % BLOCK_SIZE)
        len == IF Len(data) < room THEN Len(data) ELSE room
        S2 == [S1 EXCEPT !.buffer = [i \in DOMAIN S1.buffer |->
                             IF i >= end /\ i < end + len
                             THEN DataByte(data[i - end + 1]) ELSE S1.buffer[i]],
                         !.end = end + len]
    IN IF S1.panicked THEN S1
       ELSE IF end + len > BUFFER_SIZE THEN [S1 EXCEPT !.panicked = TRUE]
       ELSE IF len = Len(data) THEN S2
       ELSE LET S3 == build_fragment(S2, FALSE)
            IN IF S3.panicked THEN S3
               ELSE append(S3, SubSeq(data, len + 1, Len(data)))

\* RecordWriter::finish
finish(S) ==
    LET S1 == build_fragment(S, TRUE)
    IN IF S1.panicked THEN S1 ELSE flush(S1)

\* SequentialFile::read_until_end into a buffer of BUFFER_SIZE bytes
read_until_end(file, pos) ==
    SubSeq(file, pos + 1,
           IF pos + BUFFER_SIZE < Len(file) THEN pos + BUFFER_SIZE ELSE Len(file))

\* File::read_fragment: the reader after the call and what the call returns,
\* "ok" with the kind, "none", "corrupted", or "panic" for an invalid kind byte.
read_fragment(R, file) ==
    LET remain == BLOCK_SIZE - (R.offset % BLOCK_SIZE)
        offset == IF remain < HEADER_SIZE THEN R.offset + remain ELSE R.offset
        chunk == read_until_end(file, R.pos)
        R1 == IF offset >= R.length
              THEN [R EXCEPT !.buffer = chunk, !.length = Len(chunk),
                             !.offset = 0, !.pos = R.pos + Len(chunk)]
              ELSE [R EXCEPT !.offset = offset]
        hdr == R1.buffer[R1.offset + 1]
        left == R1.length - R1.offset - HEADER_SIZE
        data == SubSeq(R1.buffer, R1.offset + HEADER_SIZE + 1,
                       R1.offset + HEADER_SIZE + hdr.size)
    IN IF offset >= R.length /\ Len(chunk) = 0
       THEN [r |-> [R EXCEPT !.offset = offset], res |-> "none", kind |-> 0]
       ELSE IF R1.length - R1.offset < HEADER_SIZE
       THEN [r |-> R1, res |-> "corrupted", kind |-> 0]
       ELSE IF hdr.t = "zero" THEN [r |-> R1, res |-> "panic", kind |-> 0]
       ELSE IF hdr.t # "head" THEN [r |-> R1, res |-> "corrupted", kind |-> 0]
       ELSE IF left < hdr.size THEN [r |-> R1, res |-> "corrupted", kind |-> 0]
       ELSE IF checksum_with(hdr.kind, data) # hdr.crc
       THEN [r |-> R1, res |-> "corrupted", kind |-> 0]
       ELSE [r |-> [R1 EXCEPT !.record = R1.record \o [i \in 1..Len(data) |-> data[i].v],
                               !.offset = R1.offset + HEADER_SIZE + hdr.size],
             res |-> "ok", kind |-> hdr.kind]

\* What File::read returns: a record, the end of the file, or an error.
Record(data) == [res |-> "record", data |-> data]
EndOfFile == [res |-> "none", data |-> <<>>]
CorruptedFile == [res |-> "corrupted", data |-> <<>>]
Panic == [res |-> "panic", data |-> <<>>]

\* File::read, the loop from its is_first on
RECURSIVE read_loop(_, _, _)
read_loop(R, file, is_first) ==
    LET f == read_fragment(R, file)
    IN IF f.res = "none" THEN [r |-> f.r, out |-> EndOfFile]
       ELSE IF f.res = "corrupted" THEN [r |-> f.r, out |-> CorruptedFile]
       ELSE IF f.res = "panic" THEN [r |-> f.r, out |-> Panic]
       ELSE IF f.kind = Full /\ is_first THEN [r |-> f.r, out |-> Record(f.r.record)]
       ELSE IF f.kind = First /\ is_first THEN read_loop(f.r, file, FALSE)
       ELSE IF f.kind = Middle /\ ~is_first THEN read_loop(f.r, file, FALSE)
       ELSE IF f.kind = Last /\ ~is_first THEN [r |-> f.r, out |-> Record(f.r.record)]
       ELSE [r |-> f.r, out |-> CorruptedFile]

\* File::read
read(R, file) == read_loop([R EXCEPT !.record = <<>>], file, TRUE)

\* RecordWriter::append with n fresh bytes, on a file that was not cut
JAppend(n) ==
    /\ jlog.phase = "write"
    /\ jlog.cut = -1
    /\ ~jw.panicked
    /\ jlog.bytes + n <= MaxBytes
    /\ jlog.appends < MaxParts
    /\ Len(jlog.records) < MaxRecords
    /\ LET data == [i \in 1..n |-> jlog.bytes + i]
       IN /\ jw' = append(jw, data)
          /\ jlog' = [jlog EXCEPT !.current = @ \o data, !.appends = @ + 1,
                                  !.bytes = @ + n]
    /\ jfile' = jw'.file
    /\ UNCHANGED <<offFileVars, jr>>

\* RecordWriter::finish after at least one append
JFinish ==
    /\ jlog.phase = "write"
    /\ ~jw.panicked
    /\ jlog.appends > 0
    /\ jw' = finish(jw)
    /\ jfile' = jw'.file
    /\ jlog' = [jlog EXCEPT !.records = Append(@, jlog.current),
                            !.current = <<>>, !.appends = 0]
    /\ UNCHANGED <<offFileVars, jr>>

\* The file loses its bytes from position k on.
JCut(k) ==
    /\ jlog.phase = "write"
    /\ ~jw.panicked
    /\ jlog.appends = 0
    /\ jlog.cut = -1
    /\ k < Len(jfile)
    /\ jfile' = SubSeq(jfile, 1, k)
    /\ jlog' = [jlog EXCEPT !.cut = k, !.whole = jfile]
    /\ UNCHANGED <<offFileVars, jw, jr>>

\* File::new on the file once the writer is done with it
JOpen ==
    /\ jlog.phase = "write"
    /\ ~jw.panicked
    /\ jlog.appends = 0
    /\ jr' = NewFile
    /\ jlog' = [jlog EXCEPT !.phase = "read"]
    /\ UNCHANGED <<offFileVars, jw, jfile>>

\* File::read, called until it returns no record
JRead ==
    /\ jlog.phase = "read"
    /\ LET f == read(jr, jfile)
       IN /\ jr' = f.r
          /\ jlog' = [jlog EXCEPT !.reads = Append(@, f.out),
                                  !.phase = IF f.out.res = "record"
                                            THEN "read" ELSE "done"]
    /\ UNCHANGED <<offFileVars, jw, jfile>>

\* No file of the bounded runs is longer than this.
MaxFileSize == (MaxBytes + MaxRecords) * (HEADER_SIZE + 1) + BLOCK_SIZE

InitFile ==
    /\ BaseIdle
    /\ ExtIdle

NextFile ==
    \/ \E n \in 0..MaxAppend : JAppend(n)
    \/ JFinish
    \/ \E k \in 0..MaxFileSize : JCut(k)
    \/ JOpen
    \/ JRead

SpecFile == InitFile /\ [][NextFile]_vars

\* The records written, as a reader should return them.
WrittenRecords == [i \in 1..Len(jlog.records) |-> Record(jlog.records[i])]

\* C22: whatever appends make up the records written to a file, the writer
\* completes them, and reading the file back returns exactly those records,
\* in order, and then the end of the file.
C22_RoundTrip ==
    /\ ~jw.panicked
    /\ (jlog.cut = -1 /\ jlog.phase # "write") =>
           IsPrefix(jlog.reads, WrittenRecords \o <<EndOfFile>>)

\* ------------------------------------------- any sequence of fragments
\* A file holding fragments of the given kinds, each well formed (checksum
\* and size right, padding where fewer than HEADER_SIZE bytes are left in
\* the block) and carrying one byte where the block has room for it.
RECURSIVE Lay(_, _, _, _)
Lay(kinds, i, file, datas) ==
    IF i > Len(kinds) THEN [file |-> file, datas |-> datas]
    ELSE LET remain == BLOCK_SIZE - (Len(file) % BLOCK_SIZE)
             padded == IF remain < HEADER_SIZE
                       THEN file \o [k \in 1..remain |-> ZeroByte] ELSE file
             room == BLOCK_SIZE - (Len(padded) % BLOCK_SIZE) - HEADER_SIZE
             data == IF room > 0 THEN <<DataByte(i)>> ELSE <<>>
             header == <<HeadByte(checksum_with(kinds[i], data), Len(data), kinds[i])>>
                       \o [k \in 1..(HEADER_SIZE - 1) |-> HeadRest]
         IN Lay(kinds, i + 1, padded \o header \o data,
                Append(datas, [k \in 1..Len(data) |-> data[k].v]))

KindSeqs == UNION {[1..n -> {Full, First, Middle, Last}] : n \in 1..MaxFrags}
OffFileIdle == RootIdle /\ TreeIdle /\ CodecIdle /\ SkipIdle /\ ArenaIdle

InitFrag ==
    /\ BaseIdle
    /\ OffFileIdle
    /\ jw = NewFileWriter
    /\ jr = NewFile
    /\ \E kinds \in KindSeqs :
        /\ jfile = Lay(kinds, 1, <<>>, <<>>).file
        /\ jlog = [NoLog EXCEPT !.phase = "read", !.kinds = kinds]

NextFrag == JRead

SpecFrag == InitFrag /\ [][NextFrag]_vars

\* What a reader that accepts exactly Full and First Middle* Last returns for
\* fragments of the given kinds: the records up to the first fragment out of
\* place, then Corrupted; a file that ends inside a record counts as out of
\* place, a file that ends between records ends cleanly.
RECURSIVE Accepts(_, _, _, _, _)
Accepts(kinds, datas, i, inside, record) ==
    IF i > Len(kinds)
    THEN (IF inside THEN <<CorruptedFile>> ELSE <<EndOfFile>>)
    ELSE IF kinds[i] = Full /\ ~inside
    THEN <<Record(datas[i])>> \o Accepts(kinds, datas, i + 1, FALSE, <<>>)
    ELSE IF kinds[i] = First /\ ~inside
    THEN Accepts(kinds, datas, i + 1, TRUE, datas[i])
    ELSE IF kinds[i] = Middle /\ inside
    THEN Accepts(kinds, datas, i + 1, TRUE, record \o datas[i])
    ELSE IF kinds[i] = Last /\ inside
    THEN <<Record(record \o datas[i])>> \o Accepts(kinds, datas, i + 1, FALSE, <<>>)
    ELSE <<CorruptedFile>>

\* C24: read() accepts only Full, or First followed by any number of Middle
\* and then Last; every other sequence of fragments, a file ending after a
\* First or a Middle included, yields Corrupted where the sequence breaks.
C24_OnlyLegalSequences ==
    jlog.kinds # <<>> =>
        /\ IsPrefix(jlog.reads,
                    Accepts(jlog.kinds, Lay(jlog.kinds, 1, <<>>, <<>>).datas,
                            1, FALSE, <<>>))
        /\ jlog.phase = "done" =>
               jlog.reads = Accepts(jlog.kinds, Lay(jlog.kinds, 1, <<>>, <<>>).datas,
                                    1, FALSE, <<>>)

\* The cut lies inside a fragment: after its first byte, before its end.
CutInsideFragment ==
    \E i \in 1..Len(jw.frags) :
        jw.frags[i].from < jlog.cut /\ jlog.cut < jw.frags[i].to
\* The records whose fragments all lie before the cut.
WhollyBefore ==
    {n \in 1..Len(jlog.records) :
        \A i \in 1..Len(jw.frags) :
            jw.frags[i].record = n => jw.frags[i].to <= jlog.cut}
RecordsBeforeCut ==
    [n \in 1..Cardinality(WhollyBefore) |-> Record(jlog.records[n])]

\* C25: a written file cut short inside a fragment reads as the records that
\* lie wholly before the cut and then Corrupted: no shortened record, no
\* clean end of file.
C25_CutIsCorrupted ==
    (CutInsideFragment /\ jlog.phase # "write") =>
        /\ IsPrefix(jlog.reads, RecordsBeforeCut \o <<CorruptedFile>>)
        /\ jlog.phase = "done" =>
               jlog.reads = RecordsBeforeCut \o <<CorruptedFile>>

\* ------------------------------------------------------------------ varint
\* u16::BITS, the narrowest of the widths impl_int! is applied to.
BITS == 16
\* v as u8, b & 0x7F, a value shifted left in a u16, and the bitwise or.
as_u8(v) == v % 256
low7(b) == b % 128
shl(v, n) == (v * 2 ^ n) % 2 ^ BITS
RECURSIVE bit_or(_, _)
bit_or(a, b) ==
    IF a = 0 THEN b
    ELSE IF b = 0 THEN a
    ELSE 2 * bit_or(a \div 2, b \div 2) + (IF a % 2 = 1 \/ b % 2 = 1 THEN 1 ELSE 0)

\* Varint::size
RECURSIVE varint_size(_)
varint_size(v) == IF v >= 128 THEN 1 + varint_size(v \div 128) ELSE 1

\* Varint::encode_to: the bytes put to the encoder
RECURSIVE encode_to(_)
encode_to(v) ==
    IF v >= 128 THEN <<as_u8(v)>> \o encode_to(v \div 128) ELSE <<as_u8(v)>>

\* Varint::decode_from on a decoder holding the given bytes: the value, the
\* number of bytes popped, and whether it ended in the overflow panic.
RECURSIVE decode_loop(_, _, _, _)
decode_loop(bytes, value, shift, used) ==
    IF shift >= BITS
    THEN [value |-> value, used |-> used, panicked |-> TRUE]
    ELSE LET b == bytes[used + 1]
         IN IF b >= 128
            THEN decode_loop(bytes, bit_or(value, shl(low7(b), shift)),
                             shift + 7, used + 1)
            ELSE [value |-> bit_or(value, shl(b, shift)), used |-> used + 1,
                  panicked |-> FALSE]
decode_from(bytes) == decode_loop(bytes, 0, 0, 0)

\* What follows the varint in the buffer it is decoded from.
VarintTail == <<255, 255, 255>>
OffCodecIdle == RootIdle /\ TreeIdle /\ FileIdle /\ SkipIdle /\ ArenaIdle

\* Encoder::encode_varint
VEncode ==
    /\ codec.pc = "value"
    /\ codec' = [codec EXCEPT !.pc = "encoded", !.bytes = encode_to(codec.v)]
    /\ UNCHANGED offCodecVars

\* Decoder::decode_varint on the encoded bytes and what follows them
VDecode ==
    /\ codec.pc = "encoded"
    /\ LET d == decode_from(codec.bytes \o VarintTail)
       IN codec' = [codec EXCEPT !.pc = "decoded", !.value = d.value,
                                 !.used = d.used, !.panicked = d.panicked]
    /\ UNCHANGED offCodecVars

InitVarint ==
    /\ BaseIdle
    /\ OffCodecIdle
    /\ \E v \in 0..(2 ^ BITS - 1) : codec = [NoVarint EXCEPT !.v = v]

NextVarint == VEncode \/ VDecode

SpecVarint == InitVarint /\ [][NextVarint]_vars

\* C23: decoding the varint encoding of v returns v and consumes exactly
\* Varint::size(v) bytes, the bytes the encoding is made of.
C23_VarintRoundTrip ==
    /\ codec.pc # "value" => Len(codec.bytes) = varint_size(codec.v)
    /\ codec.pc = "decoded" =>
           /\ ~codec.panicked
           /\ codec.value = codec.v
           /\ codec.used = varint_size(codec.v)

\* --------------------------------------------------------------- skip list
\* Encode and Decode for usize: to_le_bytes and from_le_bytes
to_le_bytes(v) == [i \in 1..KeyBytes |-> (v \div 256 ^ (i - 1)) % 256]
RECURSIVE from_le_bytes(_)
from_le_bytes(bytes) ==
    IF bytes = <<>> THEN 0 ELSE Head(bytes) + 256 * from_le_bytes(Tail(bytes))
\* Encode and Decode for Vid, the id a slice of one byte: the slice with its
\* varint length, then the varint LSN.
vid_encode(k) == encode_to(1) \o <<k.id>> \o encode_to(k.lsn)
vid_decode(bytes) ==
    LET len == decode_from(bytes)
        rest == SubSeq(bytes, len.used + len.value + 1, Len(bytes))
    IN [id |-> bytes[len.used + 1], lsn |-> decode_from(rest).value]
\* The key Node::cmp and Node::data decode from what Node::new encoded.
node_key(kind, k) ==
    IF kind = "usize"
    THEN [id |-> from_le_bytes(to_le_bytes(k.id)), lsn |-> 0]
    ELSE vid_decode(vid_encode(k) \o VarintTail)
\* Ord for usize and for Vid: -1, 0, 1 for Less, Equal, Greater
key_cmp(kind, a, b) ==
    IF a.id < b.id THEN -1
    ELSE IF a.id > b.id THEN 1
    ELSE IF kind = "usize" \/ a.lsn = b.lsn THEN 0
    ELSE IF b.lsn < a.lsn THEN -1 ELSE 1
\* Node::next
NextOf(p, level) ==
    IF p = HeadNode THEN sl.head[level] ELSE sl.nodes[p].next[level]
\* One turn of the loop of find_splice_at_level: the node to go on from, or
\* the link found.
find_step(k, prev, level) ==
    LET next == NextOf(prev, level)
    IN IF next # Null /\ key_cmp(sl.kind, sl.nodes[next].key, k) < 0
       THEN [found |-> FALSE, prev |-> next, next |-> Null]
       ELSE [found |-> TRUE, prev |-> prev, next |-> next]
\* The keys a list of the given kind is given.
KeysOf(kind) ==
    IF kind = "usize" THEN {[id |-> i, lsn |-> 0] : i \in 1..NKeys}
    ELSE {[id |-> i, lsn |-> l] : i \in 1..NKeys, l \in {1, 2 ^ (BITS \div 2)}}
AllKeys == KeysOf("usize") \cup KeysOf("vid")
\* The keys sought: any key, and with Vid keys (id, MAX), the lsn of Vid::MAX.
SeekKeysOf(kind) ==
    IF kind = "usize" THEN KeysOf(kind)
    ELSE {[id |-> i, lsn |-> 2 ^ BITS - 1] : i \in 1..NKeys}
AllSeekKeys == SeekKeysOf("usize") \cup SeekKeysOf("vid")
\* random_height: 1..MAX_HEIGHT
Heights == 1..MAX_HEIGHT

\* SkipList::add up to the load of the height in random_height
SAdd(t, k, h) ==
    /\ sth[t].pc = "idle"
    /\ t <= sl.threads
    /\ k \in KeysOf(sl.kind)
    /\ sl.adds < sl.cap
    /\ sth' = [sth EXCEPT ![t] = [IdleAdder EXCEPT !.pc = "height", !.k = k,
                                     !.height = h, !.current = sl.height]]
    /\ sl' = [sl EXCEPT !.adds = @ + 1]
    /\ UNCHANGED <<offSkipVars, srd>>

\* SkipList::random_height: one turn of the compare-exchange loop
SHeight(t) ==
    /\ sth[t].pc = "height"
    /\ IF sth[t].current >= sth[t].height
       THEN /\ sth' = [sth EXCEPT ![t].pc = "new"]
            /\ sl' = sl
       ELSE IF sl.height = sth[t].current
       THEN /\ sl' = [sl EXCEPT !.height = sth[t].height]
            /\ sth' = [sth EXCEPT ![t].pc = "new"]
       ELSE /\ sth' = [sth EXCEPT ![t].current = sl.height]
            /\ sl' = sl
    /\ UNCHANGED <<offSkipVars, srd>>

\* Node::new, and the start of find_splice
SNew(t) ==
    /\ sth[t].pc = "new"
    /\ sl' = [sl EXCEPT !.nodes = Append(@,
                  [key |-> node_key(sl.kind, sth[t].k), height |-> sth[t].height,
                   next |-> [l \in Levels |-> Unset]])]
    /\ sth' = [sth EXCEPT ![t].pc = "splice", ![t].node = Len(sl.nodes) + 1,
                          ![t].level = sth[t].height - 1, ![t].prev = HeadNode]
    /\ UNCHANGED <<offSkipVars, srd>>

\* SkipList::find_splice: one load of a next pointer
SSplice(t) ==
    /\ sth[t].pc = "splice"
    /\ LET a == sth[t]
           f == find_step(a.k, a.prev, a.level)
           link == [prev |-> f.prev, next |-> f.next]
       IN sth' = [sth EXCEPT ![t] =
              IF ~f.found THEN [a EXCEPT !.prev = f.prev]
              ELSE IF a.level > 0
              THEN [a EXCEPT !.splice[a.level] = link, !.prev = f.prev,
                             !.level = a.level - 1]
              ELSE [a EXCEPT !.splice[0] = link, !.link = link, !.pc = "set"]]
    /\ UNCHANGED <<offSkipVars, sl, srd>>

\* SkipList::add: node.set_next(level, link.next)
SSetNext(t) ==
    /\ sth[t].pc = "set"
    /\ sl' = [sl EXCEPT !.nodes[sth[t].node].next[sth[t].level] = sth[t].link.next]
    /\ sth' = [sth EXCEPT ![t].pc = "cas"]
    /\ UNCHANGED <<offSkipVars, srd>>

\* The link made with a store in place of the compare-exchange.
SCasStore(t) ==
    /\ sth[t].pc = "cas"
    /\ LET a == sth[t]
       IN /\ sl' = [sl EXCEPT
                 !.head = IF a.link.prev = HeadNode
                          THEN [@ EXCEPT ![a.level] = a.node] ELSE @,
                 !.nodes = IF a.link.prev = HeadNode THEN @
                           ELSE [@ EXCEPT ![a.link.prev].next[a.level] = a.node],
                 !.epoch = @ + 1,
                 !.added = IF a.level + 1 < a.height THEN @ ELSE @ (+) SetToBag({a.k})]
          /\ sth' = [sth EXCEPT ![t] =
                 IF a.level + 1 < a.height
                 THEN [a EXCEPT !.level = a.level + 1,
                                !.link = a.splice[a.level + 1], !.pc = "set"]
                 ELSE IdleAdder]
    /\ UNCHANGED <<offSkipVars, srd>>

\* SkipList::add: link.prev.cas_next(level, link.next, node)
SCas(t) ==
    /\ sth[t].pc = "cas"
    /\ LET a == sth[t]
       IN IF NextOf(a.link.prev, a.level) = a.link.next
          THEN /\ sl' = [sl EXCEPT
                     !.head = IF a.link.prev = HeadNode
                              THEN [@ EXCEPT ![a.level] = a.node] ELSE @,
                     !.nodes = IF a.link.prev = HeadNode THEN @
                               ELSE [@ EXCEPT ![a.link.prev].next[a.level] = a.node],
                     !.epoch = @ + 1,
                     !.added = IF a.level + 1 < a.height THEN @ ELSE @ (+) SetToBag({a.k})]
               /\ sth' = [sth EXCEPT ![t] =
                     IF a.level + 1 < a.height
                     THEN [a EXCEPT !.level = a.level + 1,
                                    !.link = a.splice[a.level + 1], !.pc = "set"]
                     ELSE IdleAdder]
          ELSE /\ sth' = [sth EXCEPT ![t].pc = "refind", ![t].prev = a.link.prev]
               /\ sl' = sl
    /\ UNCHANGED <<offSkipVars, srd>>

\* compare_exchange_weak may fail although the values are equal.
SCasWeak(t) ==
    /\ sth[t].pc = "cas"
    /\ NextOf(sth[t].link.prev, sth[t].level) = sth[t].link.next
    /\ sth' = [sth EXCEPT ![t].pc = "refind", ![t].prev = sth[t].link.prev]
    /\ UNCHANGED <<offSkipVars, sl, srd>>

\* The retry linking after link.prev again, whatever follows it by now.
SRefindNoScan(t) ==
    /\ sth[t].pc = "refind"
    /\ LET a == sth[t]
       IN sth' = [sth EXCEPT ![t] =
              [a EXCEPT !.link = [prev |-> a.prev, next |-> NextOf(a.prev, a.level)],
                        !.pc = "set"]]
    /\ UNCHANGED <<offSkipVars, sl, srd>>

\* SkipList::add: find_splice_at_level(&k, link.prev, level), one load
SRefind(t) ==
    /\ sth[t].pc = "refind"
    /\ LET a == sth[t]
           f == find_step(a.k, a.prev, a.level)
       IN sth' = [sth EXCEPT ![t] =
              IF ~f.found THEN [a EXCEPT !.prev = f.prev]
              ELSE [a EXCEPT !.link = [prev |-> f.prev, next |-> f.next],
                             !.pc = "set"]]
    /\ UNCHANGED <<offSkipVars, sl, srd>>

\* SkipList::iter: SkipListIter::new loads the first node
RIter ==
    /\ srd.pc = "idle"
    /\ srd.ops < MaxReads
    /\ srd' = [IdleReader EXCEPT !.pc = "iter", !.op = "iter", !.next = sl.head[0],
                                 !.epoch = sl.epoch, !.before = sl.added,
                                 !.ops = srd.ops + 1]
    /\ UNCHANGED <<offSkipVars, sl, sth>>

\* SkipListIter::seek up to the load of the height
RSeek(k) ==
    /\ srd.pc = "idle"
    /\ k \in SeekKeysOf(sl.kind)
    /\ srd.ops < MaxReads
    /\ srd' = [IdleReader EXCEPT !.pc = "seek", !.op = "seek", !.k = k,
                                 !.level = sl.height - 1, !.epoch = sl.epoch,
                                 !.before = sl.added, !.ops = srd.ops + 1]
    /\ UNCHANGED <<offSkipVars, sl, sth>>

\* SkipList::seek: one load of a next pointer
RSeekStep ==
    /\ srd.pc = "seek"
    /\ LET f == find_step(srd.k, srd.prev, srd.level)
       IN srd' = IF ~f.found THEN [srd EXCEPT !.prev = f.prev]
                 ELSE IF srd.level > 0
                 THEN [srd EXCEPT !.prev = f.prev, !.level = srd.level - 1]
                 ELSE [srd EXCEPT !.next = f.next, !.pc = "iter", !.prev = HeadNode]
    /\ UNCHANGED <<offSkipVars, sl, sth>>

\* Iterator::next: the item, and the load of the node after it
RNext ==
    /\ srd.pc = "iter"
    /\ srd' = IF srd.next = Null
              THEN [srd EXCEPT !.pc = "idle", !.level = 0, !.prev = HeadNode]
              ELSE [srd EXCEPT !.out = Append(@, sl.nodes[srd.next].key),
                               !.next = sl.nodes[srd.next].next[0]]
    /\ UNCHANGED <<offSkipVars, sl, sth>>

OffSkipIdle == RootIdle /\ TreeIdle /\ FileIdle /\ CodecIdle /\ ArenaIdle

\* The steps of one adding thread.
Adder(t) ==
    \/ \E k \in AllKeys, h \in Heights : SAdd(t, k, h)
    \/ SHeight(t)
    \/ SNew(t)
    \/ SSplice(t)
    \/ SSetNext(t)
    \/ SCas(t)
    \/ SCasWeak(t)
    \/ SRefind(t)

SkipStart(kind, cap, threads) ==
    /\ BaseIdle
    /\ OffSkipIdle
    /\ sl = NewSkipList(kind, cap, threads)
    /\ sth = [t \in Adders |-> IdleAdder]
    /\ srd = IdleReader

\* Threads adding usize keys to a new list.
InitSkip == SkipStart("usize", MaxAdds, NAdders)

NextSkip == \E t \in Adders : Adder(t)

SpecSkip == InitSkip /\ [][NextSkip]_vars

\* Threads adding usize keys to a new list while one thread reads it.
InitSeek == SkipStart("usize", MaxSeekAdds, NAdders)

NextSeek ==
    \/ \E t \in Adders : Adder(t)
    \/ RIter
    \/ \E k \in AllSeekKeys : RSeek(k)
    \/ RSeekStep
    \/ RNext

SpecSeek == InitSeek /\ [][NextSeek]_vars

\* One thread adding Vid keys, as the memtable has them, while one reads.
InitVid == SkipStart("vid", MaxAdds, 1)

NextVid == NextSeek

SpecVid == InitVid /\ [][NextVid]_vars

\* The nodes of the chain of a level from the given node on, at most fuel of
\* them.
RECURSIVE chain_from(_, _, _)
chain_from(n, level, fuel) ==
    IF n = Null \/ n = Unset \/ fuel = 0 THEN <<>>
    ELSE <<n>> \o chain_from(sl.nodes[n].next[level], level, fuel - 1)
Chain(level) == chain_from(sl.head[level], level, Len(sl.nodes) + 1)
ChainKeys(level) == [i \in 1..Len(Chain(level)) |-> sl.nodes[Chain(level)[i]].key]
RECURSIVE BagOfSeq(_)
BagOfSeq(q) ==
    IF q = <<>> THEN EmptyBag ELSE SetToBag({Head(q)}) (+) BagOfSeq(Tail(q))
AddersIdle == \A t \in Adders : sth[t].pc = "idle"
ReadDone == srd.pc = "idle" /\ srd.op # "none"

\* C26: a key whose add has returned is on the level-0 chain, and an
\* iteration or a seek begun after the return yields it (a seek when the key
\* is not below the key sought); when every add has returned the level-0 chain,
\* and an iteration begun then, hold exactly the multiset of the keys added.
C26_AddedIsObserved ==
    /\ sl.added \sqsubseteq BagOfSeq(ChainKeys(0))
    /\ AddersIdle => BagOfSeq(ChainKeys(0)) = sl.added
    /\ ReadDone =>
           LET seen == BagOfSeq(srd.out)
           IN /\ \A x \in BagToSet(srd.before) :
                     (srd.op = "iter" \/ key_cmp(sl.kind, x, srd.k) >= 0) =>
                         CopiesIn(x, seen) >= CopiesIn(x, srd.before)
              /\ (srd.op = "iter" /\ BagCardinality(srd.before) = sl.adds) =>
                     seen = srd.before

\* An iteration begun after two concurrent adds of one key returned has ended.
C26_Witness ==
    /\ ReadDone
    /\ srd.op = "iter"
    /\ BagCardinality(srd.before) = MaxSeekAdds
    /\ \E x \in BagToSet(srd.before) : CopiesIn(x, srd.before) = MaxSeekAdds
    /\ Len(srd.out) = MaxSeekAdds

\* Keys in non-decreasing order.
Ascending(keys) ==
    \A i \in 1..(Len(keys) - 1) : key_cmp(sl.kind, keys[i], keys[i + 1]) <= 0
Linked(n, level) == sl.nodes[n].next[level] \notin {Null, Unset}

\* C27: while threads add, the chain of every level ends, holds each node at
\* most once and has its keys in non-decreasing order, the node after any
\* node has no lesser key, and what an iteration or a seek running meanwhile
\* has returned so far is in non-decreasing order.
C27_ChainsAreSorted ==
    /\ \A l \in Levels :
           /\ Len(Chain(l)) <= Len(sl.nodes)
           /\ Ascending(ChainKeys(l))
           /\ \A n \in 1..Len(sl.nodes) :
                  (l < sl.nodes[n].height /\ Linked(n, l)) =>
                      key_cmp(sl.kind, sl.nodes[n].key,
                              sl.nodes[sl.nodes[n].next[l]].key) <= 0
    /\ Ascending(srd.out)

\* An iteration has returned two different keys, the second of a node linked
\* after the iteration began, and an add is still in flight at the upper level.
C27_Witness ==
    /\ srd.op = "iter"
    /\ Len(srd.out) = 2
    /\ srd.out[1] # srd.out[2]
    /\ srd.before = EmptyBag
    /\ Len(Chain(1)) = 1
    /\ \E t \in Adders : sth[t].pc = "cas" /\ sth[t].level = 1

\* A seek has returned and no node was linked since it began.
SeekDone ==
    /\ srd.op = "seek"
    /\ srd.pc = "iter"
    /\ srd.out = <<>>
    /\ srd.epoch = sl.epoch
\* The first node of the level-0 chain whose key is not below k, Null if none.
FirstNotBelow(k) ==
    LET c == Chain(0)
        at == {i \in 1..Len(c) : key_cmp(sl.kind, sl.nodes[c[i]].key, k) >= 0}
    IN IF at = {} THEN Null ELSE c[CHOOSE i \in at : \A j \in at : i <= j]
\* The versions of an id that were added.
VersionsOf(id) == {x \in BagToSet(sl.added) : x.id = id}

\* C28: a seek during which the list did not change leaves the iterator at
\* the first level-0 node whose key is not below the key sought, at the end
\* if there is none; with Vid keys and every add returned, a seek to (id, MAX)
\* leaves it at the version of id that was added with the greatest LSN.
C28_SeekFindsFirst ==
    SeekDone =>
        /\ srd.next = FirstNotBelow(srd.k)
        /\ (sl.kind = "vid" /\ AddersIdle /\ VersionsOf(srd.k.id) # {}) =>
               /\ srd.next # Null
               /\ sl.nodes[srd.next].key \in VersionsOf(srd.k.id)
               /\ \A x \in VersionsOf(srd.k.id) : x.lsn <= sl.nodes[srd.next].key.lsn

\* ------------------------------------------------------------------- arena
\* u64::next_multiple_of, before any overflow
next_multiple_of(n, a) == IF n % a = 0 THEN n ELSE n + (a - (n % a))
\* Layout::from_size_align(size, ALIGN) is Ok
layout_valid(size) == next_multiple_of(size, ALIGN) <= IsizeMax
\* The memory the fallback allocator can get before the allocation aborts.
MemSize == WordMod - 1 - BufSize
OffArenaIdle == RootIdle /\ TreeIdle /\ FileIdle /\ CodecIdle /\ SkipIdle
ArenaPanic(t) ==
    /\ ath' = [ath EXCEPT ![t] = IdleAlloc]
    /\ ar' = [ar EXCEPT !.allocs = @ + 1]

\* Arena::alloc up to self.offset.fetch_add(size64, Relaxed)
AFetch(t, size) ==
    /\ ath[t].pc = "idle"
    /\ ~ar.aborted
    /\ ar.allocs < MaxAllocs
    /\ LET r == next_multiple_of(size, ALIGN)
       IN IF r >= WordMod /\ ar.checks
          THEN ArenaPanic(t)
          ELSE /\ ath' = [ath EXCEPT ![t] = [pc |-> "fetched", size |-> size,
                                             size64 |-> r % WordMod,
                                             offset |-> ar.offset]]
               /\ ar' = [ar EXCEPT !.offset = (@ + r) % WordMod, !.allocs = @ + 1]
    /\ UNCHANGED offArenaVars

\* Arena::alloc from the comparison on: the region of the buffer, or the
\* fallback allocator under its mutex
AReturn(t) ==
    /\ ath[t].pc = "fetched"
    /\ ~ar.aborted
    /\ LET a == ath[t]
           sum == a.offset + a.size64
       IN IF sum >= WordMod /\ ar.checks
          THEN /\ ath' = [ath EXCEPT ![t] = IdleAlloc]
               /\ ar' = ar
          ELSE IF sum % WordMod <= BufSize
          THEN /\ ar' = [ar EXCEPT !.regions = Append(@,
                            [from |-> "buffer", start |-> a.offset, size |-> a.size])]
               /\ ath' = [ath EXCEPT ![t] = IdleAlloc]
          ELSE IF ~layout_valid(a.size)
          THEN /\ ath' = [ath EXCEPT ![t] = IdleAlloc]
               /\ ar' = ar
          ELSE IF ar.used + next_multiple_of(a.size, ALIGN) > MemSize
          THEN /\ ar' = [ar EXCEPT !.aborted = TRUE]
               /\ ath' = ath
          ELSE /\ ar' = [ar EXCEPT !.used = @ + next_multiple_of(a.size, ALIGN),
                            !.regions = Append(@,
                                [from |-> "fallback", start |-> ar.used, size |-> a.size])]
               /\ ath' = [ath EXCEPT ![t] = IdleAlloc]
    /\ UNCHANGED offArenaVars

\* Threads allocating from one arena, in a build with or without overflow
\* checks.
InitArena ==
    /\ BaseIdle
    /\ OffArenaIdle
    /\ \E checks \in BOOLEAN : ar = NewArena(checks)
    /\ ath = [t \in Allocators |-> IdleAlloc]

NextArena ==
    \/ \E t \in Allocators, size \in 0..(WordMod - 1) : AFetch(t, size)
    \/ \E t \in Allocators : AReturn(t)

SpecArena == InitArena /\ [][NextArena]_vars

BufferRegions == {i \in 1..Len(ar.regions) : ar.regions[i].from = "buffer"}
Apart(r, q) ==
    \/ r.size = 0
    \/ q.size = 0
    \/ r.start + r.size <= q.start
    \/ q.start + q.size <= r.start

\* C29: whatever the interleaving of the alloc calls, a region returned from
\* the preallocated buffer starts at a multiple of ALIGN, lies with its
\* rounded size inside the buffer (a request that does not fit is not served
\* from it) and overlaps no other region returned from the buffer.
C29_RegionsApart ==
    \A i \in BufferRegions :
        LET r == ar.regions[i]
        IN /\ r.start % ALIGN = 0
           /\ r.start + next_multiple_of(r.size, ALIGN) <= BufSize
           /\ \A j \in BufferRegions \ {i} : Apart(r, ar.regions[j])

\* -------------------------------------------------------- slot count
\* The counts of a slot: free, undone and in use, done with two references,
\* done with one.
SlotCounts == {DONE, 2, DONE + 2, DONE + 1}
\* A step of a slot's count: Slot::store, Slot::done, or the drop of a Done.
CountStep(i) ==
    \/ slots[i].count = DONE /\ slots'[i].count = 2
    \/ slots[i].count = 2 /\ slots'[i].count = DONE + 2
    \/ slots[i].count = DONE + 2 /\ slots'[i].count = DONE + 1
    \/ slots[i].count = DONE + 1 /\ slots'[i].count = DONE

\* C30: the count of every ring slot is always DONE, 2, DONE + 2 or DONE + 1;
\* it changes only from DONE to 2 (the enqueue), from 2 to DONE + 2 (the DONE
\* bit, once), and by one down to DONE + 1 and to DONE (the drops, never below
\* DONE), and when it comes back to DONE neither the handle nor the guard of
\* the slot is held any more, one of them dropped in this step and the other
\* before.
C30_SlotCount ==
    /\ [](\A i \in DOMAIN slots : slots[i].count \in SlotCounts)
    /\ [][\A i \in DOMAIN slots :
            slots'[i].count # slots[i].count =>
                /\ CountStep(i)
                /\ slots'[i].count = DONE =>
                       /\ Cardinality(Holders(i)) = 1
                       /\ \A t \in Threads : th'[t].handle # i /\ th'[t].item # i]_vars

\* A slot in its second use is done with one reference left, the guard of the
\* consumer dropped before the handle, while another slot is still undone.
C30_Witness ==
    /\ head >= QUEUE_SIZE
    /\ \E i \in DOMAIN slots, j \in DOMAIN slots :
          /\ slots[i].count = DONE + 1
          /\ \E t \in Threads : th[t].handle = i /\ th[t].pc \in {"wait", "park", "ret"}
          /\ \A t \in Threads : th[t].item # i
          /\ slots[j].count = 2

\* ------------------------------------------------- the pipeline, scheduled
\* A step of a thread that is inside Core::write.
Running(t) ==
    \/ NextLsn(t)
    \/ JournalWrite(t)
    \/ EnqLoad(t)
    \/ EnqCheck(t)
    \/ EnqInc(t)
    \/ Unlock(t)
    \/ EnginesWrite(t)
    \/ HandleDone(t)
    \/ DeqLoad(t)
    \/ DeqCheck(t)
    \/ DeqCas(t)
    \/ PubLoad(t)
    \/ PubCas(t)
    \/ ItemPublish(t)
    \/ ItemWake(t)
    \/ ItemDrop(t)
    \/ WaitCheck(t)
    \/ Park(t)
    \/ Return(t)
\* The compare_exchange_weak of dequeue succeeding.
DeqCasOk(t) == DeqCas(t) /\ th'[t].pc = "pub_load"

\* Every thread inside Core::write keeps being scheduled, and a
\* compare_exchange_weak that could succeed again and again does not fail
\* forever.
Fairness ==
    \A t \in Threads : WF_vars(Running(t)) /\ SF_vars(DeqCasOk(t))

\* The pipeline of a database opened on an empty directory.
InitLive == Init /\ initLsn = 0

SpecLive == InitLive /\ [][Next]_vars /\ Fairness

\* C31: under fair scheduling every thread that is inside Core::write leaves
\* it: a committer that parked is woken once its write is published, and a
\* submitter spinning in enqueue gets a free slot.
C31_WriteReturns ==
    \A t \in Threads : (th[t].pc # "idle") ~> (th[t].pc = "idle")

\* A committer is parked with its write unpublished and no token, while the
\* submitter spins on a ring that is full.
C31_Witness ==
    \E t \in Threads, u \in Threads :
        /\ th[t].pc = "park"
        /\ ~token[t]
        /\ ~slots[th[t].handle].is_published
        /\ th[u].pc = "enq_check"
        /\ th[u].st + QUEUE_SIZE = th[u].sh

\* ------------------------------------------------- journals_to_recover
\* The journal with the greatest id <= min_lsn, if any, and every journal with
\* a greater id.
JournalsFrom(list, min_lsn) ==
    {id \in list : id > min_lsn \/ (id <= min_lsn /\ \A j \in list : j <= min_lsn => j <= id)}

\* C32: for every min_lsn, journals_to_recover gives in ascending order the
\* journal with the greatest id <= min_lsn, if any, and every journal with an
\* id above min_lsn, and no other; an open that succeeds leaves the others
\* as they are.
C32_JournalsToRecover ==
    /\ [](\A min_lsn \in 0..(MaxDurLsn + 1) :
            LET js == journals_to_recover(DOMAIN files, min_lsn)
            IN /\ Range(js) = JournalsFrom(DOMAIN files, min_lsn)
               /\ Len(js) = Cardinality(Range(js))
               /\ \A i \in 1..(Len(js) - 1) : js[i] < js[i + 1])
    /\ [][(OpenStep /\ core'.open) =>
            \A id \in DOMAIN files \ JournalsFrom(DOMAIN files, MinDurLsn) :
                id \in DOMAIN files' /\ files'[id] = files[id]]_vars

\* An open has recovered from journal 2, the last one not above min_lsn, and
\* left journal 1 alone.
C32_Witness ==
    /\ core.open
    /\ core.opens = 1
    /\ MinDurLsn = 2
    /\ DOMAIN files = {1, 3}
    /\ cur = 3
    /\ initLsn = 2

\* ------------------------------------------------- what recovery sends
\* The records recovery reads, and the state of the replay after the first k.
RecoverRecs == RecordsOf(journals_to_recover(DOMAIN files, MinDurLsn))
ReplayedTo(k) ==
    Replay(SubSeq(RecoverRecs, 1, k), 1, MinDurLsn,
           [last |-> MinDurLsn, m |-> [e \in Engines |-> {}], result |-> OpenOk])
\* The states of the replay after 0, 1, ... records.
ReplaySteps == [k \in 0..Len(RecoverRecs) |-> ReplayedTo(k)]
\* Record k was passed to engine.write of e.
Got(steps, k, e) == steps[k].m[e] # steps[k - 1].m[e]
\* The LSNs passed to engine.write of e, in the order of the calls.
SentTo(steps, e) ==
    LET ks == SortedIds({k \in 1..Len(RecoverRecs) : Got(steps, k, e)})
    IN [i \in 1..Len(ks) |-> RecoverRecs[ks[i]].rec.lsn]

\* C33: in a recovery, a record is passed to engine.write of an engine only
\* if its LSN is above min_lsn, the engine is a target of it and the engine's
\* last LSN is below its LSN at that moment; every such record that the
\* replay reaches is passed; so an engine gets no LSN at or below its own last
\* LSN, and gets the others addressed to it in increasing order, each once.
C33_RecoverSendsOnlyNewer ==
    [][OpenStep =>
         LET steps == ReplaySteps
         IN \A e \in Engines :
                LET sent == SentTo(steps, e)
                IN /\ \A k \in 1..Len(RecoverRecs) :
                          LET r == RecoverRecs[k].rec
                          IN Got(steps, k, e) <=>
                                 /\ steps[k].result.kind = "ok"
                                 /\ r.lsn > MinDurLsn
                                 /\ e \in r.targets
                                 /\ EngineLast(steps[k - 1].m, e) < r.lsn
                   /\ \A i \in 1..Len(sent) : sent[i] > durLsn[e]
                   /\ \A i \in 1..(Len(sent) - 1) : sent[i] < sent[i + 1]
                   /\ mem'[e] = Range(sent)]_vars

\* Engine 2 was durable up to LSN 1 and engine 1 up to 0: of the records 1 and
\* 2, both addressed to both, engine 2 has received only the second.
C33_Witness ==
    /\ core.opens = 1
    /\ core.result.kind = "corrupted"
    /\ durLsn[1] = 0
    /\ durLsn[2] = 1
    /\ mem[1] = {1, 2}
    /\ mem[2] = {2}
    /\ \E id \in DOMAIN files : \E k \in 1..Len(files[id]) :
          files[id][k] = [lsn |-> 1, targets |-> Engines]

\* ---------------------------------------------------------------------
\* Fragments and blocks (FileWriter::append, start_fragment)

\* The bytes left in the block that holds file position p.
BlockRemain(p) == BLOCK_SIZE - (p % BLOCK_SIZE)

\* Where the fragment after file position p has to start: at p, or at the
\* next block boundary when less than a header fits in the block.
FragmentStart(p) == IF BlockRemain(p) < HEADER_SIZE THEN p + BlockRemain(p) ELSE p

\* The end of the fragment before the i-th one (0 for the first).
FragmentsEnd(frags, i) == IF i = 1 THEN 0 ELSE frags[i - 1].to

\* C34: no fragment the writer builds crosses a block boundary (header and
\* data lie in one block), each fragment starts where the one before it
\* ends, or at the next block boundary when fewer than HEADER_SIZE bytes
\* remain in the block, and the skipped bytes are zeros in the file.
C34_FragmentsInOneBlock ==
    \A i \in 1..Len(jw.frags) :
        LET f == jw.frags[i]
            prev == FragmentsEnd(jw.frags, i)
        IN /\ f.to - f.from >= HEADER_SIZE
           /\ f.from \div BLOCK_SIZE = (f.to - 1) \div BLOCK_SIZE
           /\ f.from = FragmentStart(prev)
           /\ \A p \in prev..(f.from - 1) :
                  p < Len(jw.file) => jw.file[p + 1] = ZeroByte

\* A record was split over two append calls, the first of which ended on a
\* block boundary, and its fragment reaches into the next block.
C34_Witness ==
    \E i \in 1..Len(jw.frags) :
        /\ jw.frags[i].from \div BLOCK_SIZE # (jw.frags[i].to - 1) \div BLOCK_SIZE
        /\ ~jw.panicked

\* C35: the writer never fails one of its own assertions or bounds: flush
\* finds no fragment in progress, every slice it takes of the buffer is in
\* range (panicked stays FALSE), and the fragment in progress lies inside
\* the buffer, after the bytes not yet written to the file.
C35_WriterInBounds ==
    /\ ~jw.panicked
    /\ jw.offset <= jw.start
    /\ jw.start <= jw.end
    /\ jw.end <= BUFFER_SIZE

\* ---------------------------------------------------------------------
\* Publication after application (Core::write, WriteCommitter::commit)

\* The engines the write that took LSN l was meant for, from its record.
WriteTargets(l) ==
    UNION {r.targets : r \in {x \in Range(files[cur] \o wbuf) : x.lsn = l}}

\* Engines::write has returned for the write that took LSN l.
Applied(l) == \A e \in WriteTargets(l) : l \in mem[e]

\* C36: when WriteCommitter::last_lsn is >= L, every write that was given an
\* LSN <= L since the open has been written to all its target engines.
C36_PublishedIsApplied ==
    \A l \in (initLsn + 1)..pubLsn : Applied(l)

\* The same for the writes that reached the pipeline, those whose journal
\* write did not fail.
C36_SubmittedIsApplied ==
    \A l \in (initLsn + 1)..pubLsn : l \notin hist.failed => Applied(l)

\* A later write was applied and marked done first; the published LSN moved
\* over both only after the earlier one was applied too.
C36_Witness ==
    /\ pubLsn >= initLsn + 2
    /\ hist.failed = {}
    /\ \E t \in Threads :
          /\ th[t].pc \in {"wait", "park"}
          /\ th[t].lsn = pubLsn
          /\ th[t].batch # {}
          /\ \E u \in Threads : th[u].lsn < th[t].lsn /\ th[u].pc = "item_wake"

\* ---------------------------------------------------------------------
\* Failed writes (Core::write, Recover::recover)

\* The LSNs of the writes that returned Ok.
CommittedLsns == {w.lsn : w \in hist.committed}

\* The LSNs taken by failed writes only (an LSN lost with the journal
\* buffer is given out again after a reopen).
FailedOnly == hist.failed \ CommittedLsns

\* The records of a journal file follow each other without a gap.
Consecutive(recs) == \A k \in 1..(Len(recs) - 1) : recs[k + 1].lsn = recs[k].lsn + 1

\* C37: a write that returned an error is applied to no engine, neither at
\* once nor by a later recovery, and its LSN leaves no gap in a journal, so
\* that recovery does not stop at the records written after it.
C37_FailedWriteHasNoEffect ==
    /\ \A l \in FailedOnly : \A e \in Engines : l \notin EngineState(e)
    /\ \A id \in DOMAIN files : Consecutive(files[id] \o wbuf)

\* The journal part of C37 alone.
C37_NoGapInJournal ==
    \A id \in DOMAIN files : Consecutive(files[id] \o wbuf)

\* ---------------------------------------------------------------------
\* LSNs over the life of a directory (Core::open, create_pipeline)

\* C38: LSNs are not reused: after every successful open the submitter
\* starts at or above the LSN of every write committed before, so the first
\* LSN it gives out is greater than all of them, and no write is committed
\* with the LSN of an earlier committed write.
C38_LsnNeverReused ==
    /\ [](core.open => \A l \in CommittedLsns : l <= subLsn)
    /\ [][\A w \in hist'.committed \ hist.committed :
             w.lsn \notin CommittedLsns]_vars

\* ---------------------------------------------------------------------
\* Opening with one more engine (Core::open, Recover::recover)

\* Engine n was just created: it holds nothing and no record names it.
IsNewEngine(n) ==
    /\ durLsn[n] = 0
    /\ \A id \in DOMAIN files : \A k \in 1..Len(files[id]) :
           n \notin files[id][k].targets

\* Engines::min_last_lsn and max_last_lsn of the engines other than n.
MinLsnWithout(n) == Min({durLsn[e] : e \in Engines \ {n}})
MaxLsnWithout(n) == Max({durLsn[e] : e \in Engines \ {n}})

\* The records Recover::recover replays for the engines other than n.
ReplayedWithout(n) ==
    SelectSeq(RecordsOf(journals_to_recover(DOMAIN files, MinLsnWithout(n))),
              LAMBDA x : x.rec.lsn > MinLsnWithout(n))

\* Recover::recover succeeds for the engines other than n.
RecoversWithout(n) ==
    LET recs == ReplayedWithout(n)
    IN /\ \A k \in 1..Len(recs) : recs[k].rec.lsn = MinLsnWithout(n) + k
       /\ MinLsnWithout(n) + Len(recs) >= MaxLsnWithout(n)

\* C39: a directory that opens with the engines it has also opens when one
\* more, new engine is registered, whose last LSN is 0.
C39_NewEngineOpens ==
    [][\A n \in Engines :
          (OpenStep /\ IsNewEngine(n) /\ RecoversWithout(n)) => core'.open]_vars

\* The journals still hold every record from LSN 1 on: the case in which
\* the open with a new engine does succeed.
C39_Witness ==
    /\ core.open
    /\ core.opens = 1
    /\ \E n \in Engines :
          /\ durLsn[n] = 0
          /\ mem[n] = {}
          /\ \E e \in Engines : durLsn[e] > 0

\* ---------------------------------------------------------------------
\* Bucket ids (EngineHandle::open, next_id, create_bucket)

\* The ids a manifest record holds.
IdsOfRecord(rec) == {rec.last_id} \cup BucketIds(rec.add) \cup rec.del

\* Every id the engine directory holds: the ids of its manifest files, the
\* id CURRENT or TEMP names, and the ids in the records of the manifests.
DirIds ==
    DOMAIN tdir.manifests \cup {tdir.current, tdir.temp}
    \cup UNION {UNION {IdsOfRecord(tdir.manifests[f][k]) :
                          k \in 1..Len(tdir.manifests[f])} :
                   f \in DOMAIN tdir.manifests}

\* The largest of them, 0 in a new directory.
DirHigh == Max({0} \cup {id \in DirIds : id > 0})

\* create_bucket of thread t takes its id.
TakesBucketId(t) ==
    /\ bth[t].op = "create_bucket"
    /\ bth[t].pc = "locked"
    /\ bth'[t].pc = "write_edit"

\* create_bucket of thread t returns Ok.
CreateReturns(t) ==
    /\ bth[t].op = "create_bucket"
    /\ bth[t].pc = "apply"
    /\ bth'[t].pc = "idle"

\* C40: bucket ids are not reused. The largest id the directory holds never
\* decreases, over rotations, crashes and reopens; the id create_bucket takes
\* is above it, hence different from every bucket id and every manifest file
\* id that was ever persisted; and the bucket it returns has an id that no
\* other bucket of the handle and no manifest file has.
C40_BucketIdsNeverReused ==
    [][/\ DirHigh' >= DirHigh
       /\ \A t \in BucketThreads :
             /\ TakesBucketId(t) => bth'[t].id > DirHigh
             /\ CreateReturns(t) =>
                   /\ bth[t].id \notin BucketIds(tree.buckets)
                   /\ bth[t].id \notin DOMAIN tdir.manifests
                   /\ bth[t].id \notin {tdir.current, tdir.temp}]_vars

\* After a reopen a create_bucket has returned a bucket whose id is above
\* the ids of an earlier bucket and of two manifest files.
C40_Witness ==
    /\ tree.pc = "open"
    /\ tree.opens = 2
    /\ \E t \in BucketThreads :
          /\ bth[t].pc = "idle"
          /\ bth[t].op = "create_bucket"
          /\ bth[t].result = "ok"
          /\ bth[t].id >= 4
          /\ tree.buckets = {[id |-> bth[t].id, name |-> bth[t].name]}

====
